---- MODULE Spec2Model ----
(***************************************************************************)
(* UmiTerm: the terminal core (grid, terminal state, escape-sequence       *)
(* parser) and the PTY duplex (reader / writer threads, bounded channels). *)
(*                                                                         *)
(* Values are kept as in the source: a Grid is a record with a row-major   *)
(* cell buffer indexed from 0, a Terminal is a record of its fields, and   *)
(* every method is an operator from the old value to the new one.  Bytes   *)
(* and characters are their code points.                                   *)
(***************************************************************************)
EXTENDS Integers, Sequences, FiniteSets, TLC

VARIABLES
    terminal,        \* Pane::terminal  (Terminal)
    parser,          \* Pane::parser    (AnsiParser, the vte state machine)
    overflow_checks, \* build profile: TRUE = arithmetic overflow panics, FALSE = it wraps
    nops,            \* number of process / resize calls made so far
    input,           \* chunking runs: the whole byte sequence B
    fed,             \* chunking runs: how many bytes of B have been processed
    output_q,        \* bounded channel reader thread -> Pty::read
    input_q,         \* bounded channel Pty::write -> writer thread
    reader,          \* pty-reader thread: [pc, buf]
    writer,          \* pty-writer thread: [pc, data]
    main,            \* main thread: [pc, pending, result]
    nread,           \* chunks the reader thread has read from the master
    nwritten,        \* Pty::write calls made by the host
    readLog,         \* history: chunks read from the master, in order
    dropLog,         \* history: positions in readLog of the chunks try_send discarded
    parserStream,    \* history: bytes handed to AnsiParser::process by Pane::update
    lastRead,        \* history: the last completed Pty::read call
    writeLog,        \* history: chunks passed to Pty::write, in call order
    writeRet,        \* history: results of the Pty::write calls that returned
    delivered,       \* history: chunks write_all wrote to the PTY master
    hist,            \* history: the cursor at the last save and at the last alt-screen entry
    grid,            \* a Grid used on its own: [g, op, col, row, cell, before]
    layout,          \* the window's pane layout: [tree, next_id, ...]
    atlas,           \* the renderer's GlyphAtlas
    app,             \* the App of main.rs: its windows and its exit flags
    pty,             \* a Pty handle: the size it holds and the size the master has
    window,          \* a WindowState of main.rs: layout, panes, focus, mouse, drag
    frame            \* one call of Renderer::render_panes_with_explorer and the GPU buffers

vars == <<terminal, parser, overflow_checks, nops, input, fed,
          output_q, input_q, reader, writer, main, nread, nwritten,
          readLog, dropLog, parserStream, lastRead, writeLog, writeRet, delivered,
          hist, grid, layout, atlas, app, pty, window, frame>>

termVars == <<terminal, parser, overflow_checks, nops>>
chunkVars == <<input, fed>>
auxVars == <<hist, grid, layout, atlas, app, pty, window, frame>>
ptyVars == <<output_q, input_q, reader, writer, main, nread, nwritten,
             readLog, dropLog, parserStream, lastRead, writeLog, writeRet, delivered>>

-----------------------------------------------------------------------------
(* Bounds of the model *)

\* largest terminal width and height created or resized to
MaxCols == 2
MaxRows == 2
\* largest numeric parameter written into a CSI sequence
MaxParam == 3
\* process / resize calls per run
MaxOps == 5
\* length of the byte sequence B of a chunking run
MaxInput == 4
\* capacity of the two PTY channels (bounded(256) in the source, scaled down)
ChannelCap == 2
\* chunks the reader thread reads, Pty::write calls the host makes
MaxReads == 3
MaxWrites == 2
\* largest cell buffer (cols x rows) of a Grid used on its own
MaxCells == 4
\* pane ids handed out by PaneId::new
MaxPaneId == 3
\* atlas width and height in pixels, and the largest raster a font returns
MaxAtlas == 3
MaxGlyph == 4
\* largest height of a terminal whose scrolling, wrapping and resizing is followed
MaxScreenRows == 3

-----------------------------------------------------------------------------
(* Helpers *)

Min(a, b) == IF a < b THEN a ELSE b
Max(a, b) == IF a > b THEN a ELSE b
saturating_sub(a, b) == IF a >= b THEN a - b ELSE 0

RECURSIVE Flatten(_)
Flatten(ss) == IF ss = <<>> THEN <<>> ELSE Head(ss) \o Flatten(Tail(ss))

IsPrefix(s, t) == Len(s) <= Len(t) /\ SubSeq(t, 1, Len(s)) = s

-----------------------------------------------------------------------------
(* grid.rs *)

Color_BLACK   == <<0, 0, 0, 255>>
Color_WHITE   == <<255, 255, 255, 255>>
Color_RED     == <<255, 0, 0, 255>>
Color_GREEN   == <<0, 255, 0, 255>>
Color_BLUE    == <<0, 0, 255, 255>>
Color_YELLOW  == <<255, 255, 0, 255>>
Color_CYAN    == <<0, 255, 255, 255>>
Color_MAGENTA == <<255, 0, 255, 255>>
Color_EMERALD == <<80, 220, 200, 255>>

Color_rgb(r, g, b) == <<r, g, b, 255>>

to_rgb(v) == IF v = 0 THEN 0 ELSE 55 + v * 40

Color_from_ansi256(code) ==
    CASE code = 0  -> Color_rgb(0, 0, 0)
      [] code = 1  -> Color_rgb(128, 0, 0)
      [] code = 2  -> Color_rgb(0, 128, 0)
      [] code = 3  -> Color_rgb(128, 128, 0)
      [] code = 4  -> Color_rgb(0, 0, 128)
      [] code = 5  -> Color_rgb(128, 0, 128)
      [] code = 6  -> Color_rgb(0, 128, 128)
      [] code = 7  -> Color_rgb(192, 192, 192)
      [] code = 8  -> Color_rgb(128, 128, 128)
      [] code = 9  -> Color_rgb(255, 0, 0)
      [] code = 10 -> Color_rgb(0, 255, 0)
      [] code = 11 -> Color_rgb(255, 255, 0)
      [] code = 12 -> Color_rgb(0, 0, 255)
      [] code = 13 -> Color_rgb(255, 0, 255)
      [] code = 14 -> Color_rgb(0, 255, 255)
      [] code = 15 -> Color_rgb(255, 255, 255)
      [] code >= 16 /\ code <= 231 ->
            LET idx == code - 16
            IN Color_rgb(to_rgb((idx \div 36) % 6), to_rgb((idx \div 6) % 6), to_rgb(idx % 6))
      [] OTHER ->
            LET gray == 8 + (code - 232) * 10
            IN Color_rgb(gray, gray, gray)

Cell_default ==
    [character |-> 32, fg |-> Color_EMERALD, bg |-> Color_BLACK, flags |-> {}]

Grid_new(cols, rows) ==
    [cells       |-> [i \in 0 .. (cols * rows - 1) |-> Cell_default],
     cols        |-> cols,
     rows        |-> rows,
     dirty_lines |-> [r \in 0 .. (rows - 1) |-> TRUE]]

Grid_resize_flat_copy(g, new_cols, new_rows) ==
    [cells       |-> [i \in 0 .. (new_cols * new_rows - 1) |->
                         IF i \in DOMAIN g.cells THEN g.cells[i] ELSE Cell_default],
     cols        |-> new_cols,
     rows        |-> new_rows,
     dirty_lines |-> [r \in 0 .. (new_rows - 1) |-> TRUE]]

Grid_resize(g, new_cols, new_rows) ==
    LET copy_cols == Min(g.cols, new_cols)
        copy_rows == Min(g.rows, new_rows)
    IN [cells       |-> [i \in 0 .. (new_cols * new_rows - 1) |->
                            LET row == i \div new_cols
                                col == i % new_cols
                            IN IF row < copy_rows /\ col < copy_cols
                               THEN g.cells[row * g.cols + col]
                               ELSE Cell_default],
        cols        |-> new_cols,
        rows        |-> new_rows,
        dirty_lines |-> [r \in 0 .. (new_rows - 1) |-> TRUE]]

Grid_get(g, col, row) ==
    IF col < g.cols /\ row < g.rows
    THEN <<g.cells[row * g.cols + col]>>
    ELSE <<>>

\* get_mut(col, row): the flag is set before the reference is handed out; what
\* the caller then writes through it is Grid_write_through
Grid_get_mut(g, col, row) ==
    IF col < g.cols /\ row < g.rows
    THEN [g EXCEPT !.dirty_lines[row] = TRUE]
    ELSE g

\* *cell_ref = cell, through the Some(&mut Cell) that get_mut returned
Grid_write_through(g, col, row, cell) ==
    IF col < g.cols /\ row < g.rows
    THEN [g EXCEPT !.cells[row * g.cols + col] = cell]
    ELSE g

Grid_set_column_major(g, col, row, cell) ==
    IF col < g.cols /\ row < g.rows
    THEN [g EXCEPT !.cells[col * g.rows + row] = cell, !.dirty_lines[row] = TRUE]
    ELSE g

Grid_set(g, col, row, cell) ==
    IF col < g.cols /\ row < g.rows
    THEN [g EXCEPT !.cells[row * g.cols + col] = cell, !.dirty_lines[row] = TRUE]
    ELSE g

Grid_clear_row(g, row) ==
    IF row < g.rows
    THEN [g EXCEPT !.cells = [i \in DOMAIN g.cells |->
                                 IF i \div g.cols = row THEN Cell_default ELSE g.cells[i]],
                   !.dirty_lines[row] = TRUE]
    ELSE g

Grid_clear(g) ==
    [g EXCEPT !.cells = [i \in DOMAIN g.cells |-> Cell_default],
              !.dirty_lines = [r \in DOMAIN g.dirty_lines |-> TRUE]]

Grid_clear_dirty(g) ==
    [g EXCEPT !.dirty_lines = [r \in DOMAIN g.dirty_lines |-> FALSE]]

Grid_mark_all_dirty(g) ==
    [g EXCEPT !.dirty_lines = [r \in DOMAIN g.dirty_lines |-> TRUE]]

\* grid[(col, row)]: the index is not checked against cols and rows, only
\* against the buffer (a Vec index, which panics past the end)
Grid_index(g, col, row) == g.cells[row * g.cols + col]

Grid_scroll_up_without_clear(g, amount) ==
    IF amount >= g.rows
    THEN Grid_clear(g)
    ELSE LET shift == amount * g.cols
             n == g.cols * g.rows
         IN [g EXCEPT !.cells = [i \in DOMAIN g.cells |->
                                    IF i + shift < n THEN g.cells[i + shift]
                                    ELSE g.cells[i]],
                      !.dirty_lines = [r \in DOMAIN g.dirty_lines |-> TRUE]]

Grid_scroll_up(g, amount) ==
    IF amount >= g.rows
    THEN Grid_clear(g)
    ELSE LET shift == amount * g.cols
             n == g.cols * g.rows
             clear_start == (g.rows - amount) * g.cols
         IN [g EXCEPT !.cells = [i \in DOMAIN g.cells |->
                                    IF i >= clear_start THEN Cell_default
                                    ELSE IF i + shift < n THEN g.cells[i + shift]
                                    ELSE g.cells[i]],
                      !.dirty_lines = [r \in DOMAIN g.dirty_lines |-> TRUE]]

-----------------------------------------------------------------------------
(* terminal.rs *)

Cursor_default ==
    [col |-> 0, row |-> 0, shape |-> "Block", blinking |-> TRUE, visible |-> TRUE]

\* unicode_width's display width: 0 for combining marks, 2 for East Asian
\* wide characters, 1 otherwise (controls, which have none, default to 1)
width(c) ==
    IF c >= 768 /\ c <= 879 THEN 0
    ELSE IF \/ (c >= 4352 /\ c <= 4447)
            \/ (c >= 11904 /\ c <= 42191)
            \/ (c >= 44032 /\ c <= 55203)
            \/ (c >= 63744 /\ c <= 64255)
            \/ (c >= 65280 /\ c <= 65376)
         THEN 2
    ELSE 1

\* for i in (8..cols).step_by(8)
tab_stops(cols) ==
    [k \in 1 .. (IF cols > 8 THEN (cols - 1) \div 8 ELSE 0) |-> 8 * k]

\* "BlazeTerm"
Title_default == <<66, 108, 97, 122, 101, 84, 101, 114, 109>>

\* $HOME at start-up: a path of the environment, here "/h"
Home == <<47, 104>>

\* The record also carries panicked: whether a method of this Terminal has
\* panicked (the process is then gone), and response, the pending reply bytes.
Terminal_new(cols, rows) ==
    [grid          |-> Grid_new(cols, rows),
     alt_grid      |-> Grid_new(cols, rows),
     cursor        |-> Cursor_default,
     saved_cursor  |-> Cursor_default,
     mode          |-> {"AUTO_WRAP"},
     current_style |-> [fg |-> Color_EMERALD, bg |-> Color_BLACK, flags |-> {}],
     scroll_top    |-> 0,
     scroll_bottom |-> rows - 1,
     tabs          |-> tab_stops(cols),
     title         |-> Title_default,
     cwd           |-> Home,
     response      |-> <<>>,
     panicked      |-> FALSE]

active_grid(t) ==
    IF "ALT_SCREEN" \in t.mode THEN t.alt_grid ELSE t.grid

\* *self.active_grid_mut() = g
active_grid_mut_ignoring_mode(t, g) == [t EXCEPT !.grid = g]
active_grid_mut(t, g) ==
    IF "ALT_SCREEN" \in t.mode
    THEN [t EXCEPT !.alt_grid = g]
    ELSE [t EXCEPT !.grid = g]

move_cursor_to(t, col, row) ==
    LET cols == active_grid(t).cols
        rows == active_grid(t).rows
    IN [t EXCEPT !.cursor.col = Min(col, saturating_sub(cols, 1)),
                 !.cursor.row = Min(row, saturating_sub(rows, 1))]

move_cursor(t, delta_col, delta_row) ==
    LET new_col == Max(t.cursor.col + delta_col, 0)
        new_row == Max(t.cursor.row + delta_row, 0)
    IN move_cursor_to(t, new_col, new_row)

save_cursor_position_only(t) ==
    [t EXCEPT !.saved_cursor.col = t.cursor.col, !.saved_cursor.row = t.cursor.row]
save_cursor(t) == [t EXCEPT !.saved_cursor = t.cursor]

restore_cursor(t) == [t EXCEPT !.cursor = t.saved_cursor]

carriage_return(t) == [t EXCEPT !.cursor.col = 0]

tab(t) ==
    LET cols == active_grid(t).cols
        later == {k \in DOMAIN t.tabs : t.tabs[k] > t.cursor.col}
    IN IF later # {}
       THEN LET k == CHOOSE k \in later : \A j \in later : k <= j
            IN [t EXCEPT !.cursor.col = Min(t.tabs[k], cols - 1)]
       ELSE [t EXCEPT !.cursor.col = cols - 1]

backspace(t) ==
    IF t.cursor.col > 0 THEN [t EXCEPT !.cursor.col = @ - 1] ELSE t

\* The rows are shifted in place from the top down, each from a row below
\* it that has not been written yet, so every source cell is the old one.
\* scroll_bottom + 1 - amount is computed in usize: past zero it panics in a
\* build with overflow checks and wraps (an empty range) in one without.
scroll_up(t, amount) ==
    LET g == active_grid(t)
        top == t.scroll_top
        bot == t.scroll_bottom
        last == saturating_sub(bot, amount)
        moved(row) == row >= top /\ row <= last /\ row + amount <= bot
        underflow == amount > bot + 1
        cleared(row) == ~underflow /\ row >= bot + 1 - amount /\ row <= bot /\ row < g.rows
        shifted == [i \in DOMAIN g.cells |->
                       IF moved(i \div g.cols)
                       THEN Grid_index(g, i % g.cols, (i \div g.cols) + amount)
                       ELSE g.cells[i]]
        cells == [i \in DOMAIN g.cells |->
                     IF cleared(i \div g.cols) THEN Cell_default ELSE shifted[i]]
        dirty == [r \in DOMAIN g.dirty_lines |->
                     g.dirty_lines[r] \/ (moved(r) /\ g.cols > 0) \/ cleared(r)]
        t1 == active_grid_mut(t, [g EXCEPT !.cells = cells, !.dirty_lines = dirty])
    IN IF underflow /\ overflow_checks THEN [t1 EXCEPT !.panicked = TRUE] ELSE t1

\* Shifted in place from the bottom up; then rows scroll_top .. scroll_top +
\* amount - 1 are cleared, each guarded only by row < rows.
scroll_down(t, amount) ==
    LET g == active_grid(t)
        top == t.scroll_top
        bot == t.scroll_bottom
        moved(row) == row >= top + amount /\ row <= bot
        cleared(row) == row >= top /\ row < top + amount /\ row < g.rows
        shifted == [i \in DOMAIN g.cells |->
                       IF moved(i \div g.cols)
                       THEN Grid_index(g, i % g.cols, (i \div g.cols) - amount)
                       ELSE g.cells[i]]
        cells == [i \in DOMAIN g.cells |->
                     IF cleared(i \div g.cols) THEN Cell_default ELSE shifted[i]]
        dirty == [r \in DOMAIN g.dirty_lines |->
                     g.dirty_lines[r] \/ (moved(r) /\ g.cols > 0) \/ cleared(r)]
    IN active_grid_mut(t, [g EXCEPT !.cells = cells, !.dirty_lines = dirty])

linefeed(t) ==
    IF t.cursor.row >= t.scroll_bottom
    THEN scroll_up(t, 1)
    ELSE [t EXCEPT !.cursor.row = @ + 1]

handle_control_char(t, c) ==
    CASE c = 10 -> linefeed(t)
      [] c = 13 -> carriage_return(t)
      [] c = 9  -> tab(t)
      [] c = 8  -> backspace(t)
      [] OTHER  -> t

\* cols - char_width is computed in usize.  When cols < char_width it panics
\* in a build with overflow checks; without them the column wraps far past
\* the grid, set() writes nothing there, and adding char_width wraps it back
\* to cols.
input_char(t, c) ==
    IF c < 32 THEN handle_control_char(t, c)
    ELSE
    LET char_width == width(c)
        cols == active_grid(t).cols
        overflows == t.cursor.col + char_width > cols
        clamp_underflow == overflows /\ "AUTO_WRAP" \notin t.mode /\ cols < char_width
        t1 == IF overflows
              THEN IF "AUTO_WRAP" \in t.mode
                   THEN LET t0 == [t EXCEPT !.cursor.col = 0, !.cursor.row = @ + 1]
                        IN IF t0.cursor.row > t0.scroll_bottom
                           THEN [scroll_up(t0, 1) EXCEPT !.cursor.row = t0.scroll_bottom]
                           ELSE t0
                   ELSE [t EXCEPT !.cursor.col = saturating_sub(cols, char_width)]
              ELSE t
        cell == [character |-> c, fg |-> t.current_style.fg,
                 bg |-> t.current_style.bg, flags |-> t.current_style.flags]
        spacer == [cell EXCEPT !.character = 32]
        col == t1.cursor.col
        row == t1.cursor.row
        t2 == active_grid_mut(t1, Grid_set(active_grid(t1), col, row, cell))
        t3 == IF char_width = 2 /\ col + 1 < cols
              THEN active_grid_mut(t2, Grid_set(active_grid(t2), col + 1, row, spacer))
              ELSE t2
    IN IF clamp_underflow
       THEN IF overflow_checks
            THEN [t EXCEPT !.panicked = TRUE]
            ELSE [t EXCEPT !.cursor.col = cols]
       ELSE [t3 EXCEPT !.cursor.col = col + char_width]

\* erase_line_to_end starting one cell after the cursor
erase_line_after_cursor(t) ==
    LET g == active_grid(t)
        row == t.cursor.row
        hit(i) == i \div g.cols = row /\ i % g.cols > t.cursor.col
    IN active_grid_mut(t,
         [g EXCEPT !.cells = [i \in DOMAIN g.cells |->
                                 IF hit(i) THEN Cell_default ELSE g.cells[i]]])

erase_line_to_end(t) ==
    LET g == active_grid(t)
        row == t.cursor.row
        hit(i) == i \div g.cols = row /\ i % g.cols >= t.cursor.col
    IN active_grid_mut(t,
         [g EXCEPT !.cells = [i \in DOMAIN g.cells |->
                                 IF hit(i) THEN Cell_default ELSE g.cells[i]],
                   !.dirty_lines = [r \in DOMAIN g.dirty_lines |->
                                 g.dirty_lines[r] \/ (r = row /\ t.cursor.col < g.cols)]])

erase_line_to_start(t) ==
    LET g == active_grid(t)
        row == t.cursor.row
        hit(i) == i \div g.cols = row /\ i % g.cols <= t.cursor.col
    IN active_grid_mut(t,
         [g EXCEPT !.cells = [i \in DOMAIN g.cells |->
                                 IF hit(i) THEN Cell_default ELSE g.cells[i]],
                   !.dirty_lines = [r \in DOMAIN g.dirty_lines |->
                                 g.dirty_lines[r] \/ (r = row /\ g.cols > 0)]])

erase_line(t) == active_grid_mut(t, Grid_clear_row(active_grid(t), t.cursor.row))

RECURSIVE clear_rows(_, _, _)
\* for row in from..to { grid.clear_row(row) }   (to exclusive)
clear_rows(g, from, to) ==
    IF from >= to \/ from >= g.rows THEN g
    ELSE clear_rows(Grid_clear_row(g, from), from + 1, to)

erase_display_to_end(t) ==
    LET t1 == erase_line_to_end(t)
        g == active_grid(t1)
    IN active_grid_mut(t1, clear_rows(g, t1.cursor.row + 1, g.rows))

erase_display_to_start(t) ==
    LET t1 == erase_line_to_start(t)
    IN active_grid_mut(t1, clear_rows(active_grid(t1), 0, t1.cursor.row))

erase_display(t) == active_grid_mut(t, Grid_clear(active_grid(t)))

enter_alt_screen(t) ==
    IF "ALT_SCREEN" \notin t.mode
    THEN save_cursor([t EXCEPT !.mode = @ \cup {"ALT_SCREEN"},
                               !.alt_grid = Grid_clear(t.alt_grid)])
    ELSE t

exit_alt_screen(t) ==
    IF "ALT_SCREEN" \in t.mode
    THEN LET t1 == restore_cursor([t EXCEPT !.mode = @ \ {"ALT_SCREEN"}])
         IN [t1 EXCEPT !.scroll_top = 0,
                       !.scroll_bottom = saturating_sub(t1.grid.rows, 1),
                       !.grid = Grid_mark_all_dirty(t1.grid)]
    ELSE t

\* rows - 1 and cols - 1 are computed in usize; the callers pass cols, rows >= 1
Terminal_resize(t, cols, rows) ==
    LET t1 == [t EXCEPT !.grid = Grid_resize(t.grid, cols, rows),
                        !.alt_grid = Grid_resize(t.alt_grid, cols, rows),
                        !.scroll_bottom = rows - 1]
        t2 == IF t1.cursor.col >= cols THEN [t1 EXCEPT !.cursor.col = cols - 1] ELSE t1
        t3 == IF t2.cursor.row >= rows THEN [t2 EXCEPT !.cursor.row = rows - 1] ELSE t2
    IN [t3 EXCEPT !.tabs = tab_stops(cols)]

\* The pending replies: these three methods are called by parser.rs and
\* pane.rs and described in the specification (4.2, 4.3 DSR, 6).
queue_response(t, bytes) == [t EXCEPT !.response = @ \o bytes]

RECURSIVE Digits(_)
\* the decimal digits of n, as bytes
Digits(n) == IF n < 10 THEN <<48 + n>> ELSE Digits(n \div 10) \o <<48 + (n % 10)>>

report_cursor_position(t) ==
    queue_response(t, <<27, 91>> \o Digits(t.cursor.row + 1) \o <<59>>
                      \o Digits(t.cursor.col + 1) \o <<82>>)

\* take_response: <<the reply, or <<>> for None>> and the terminal left behind
take_response_value(t) == t.response
take_response(t) == [t EXCEPT !.response = <<>>]

-----------------------------------------------------------------------------
(* parser.rs: the Perform callbacks of TerminalPerformer *)

print_in_default_style(t, c) ==
    IF c = 8224 \/ c = 8225 THEN t
    ELSE [input_char([t EXCEPT !.current_style =
                         [fg |-> Color_EMERALD, bg |-> Color_BLACK, flags |-> {}]], c)
            EXCEPT !.current_style = t.current_style]

print(t, c) ==
    IF c = 8224 \/ c = 8225 THEN t ELSE input_char(t, c)

execute(t, byte) ==
    CASE byte = 7  -> t
      [] byte = 8  -> backspace(t)
      [] byte = 9  -> tab(t)
      [] byte \in {10, 11, 12} -> linefeed(t)
      [] byte = 13 -> carriage_return(t)
      [] OTHER -> t

bright_colors(k) ==
    CASE k = 0 -> Color_rgb(128, 128, 128)
      [] k = 1 -> Color_rgb(255, 0, 0)
      [] k = 2 -> Color_rgb(0, 255, 0)
      [] k = 3 -> Color_rgb(255, 255, 0)
      [] k = 4 -> Color_rgb(0, 0, 255)
      [] k = 5 -> Color_rgb(255, 0, 255)
      [] k = 6 -> Color_rgb(0, 255, 255)
      [] OTHER -> Color_rgb(255, 255, 255)

standard_colors(k) ==
    CASE k = 0 -> Color_BLACK
      [] k = 1 -> Color_RED
      [] k = 2 -> Color_GREEN
      [] k = 3 -> Color_YELLOW
      [] k = 4 -> Color_BLUE
      [] k = 5 -> Color_MAGENTA
      [] k = 6 -> Color_CYAN
      [] OTHER -> Color_WHITE

\* params is the slice params[i..]; <<>> stands for None; `as u8` truncates
parse_extended_color(params) ==
    IF Len(params) < 2 THEN <<>>
    ELSE CASE params[2] = 5 ->
                IF Len(params) >= 3 THEN <<Color_from_ansi256(params[3] % 256)>> ELSE <<>>
           [] params[2] = 2 ->
                IF Len(params) >= 5
                THEN <<Color_rgb(params[3] % 256, params[4] % 256, params[5] % 256)>>
                ELSE <<>>
           [] OTHER -> <<>>

extended_color_params(params) ==
    IF Len(params) < 2 THEN 0
    ELSE CASE params[2] = 5 -> 2
           [] params[2] = 2 -> 4
           [] OTHER -> 0

sgr_flag(n) ==
    CASE n = 1 -> "BOLD"
      [] n = 3 -> "ITALIC"
      [] n = 4 -> "UNDERLINE"
      [] n = 5 -> "BLINK"
      [] n = 7 -> "INVERSE"
      [] n = 8 -> "HIDDEN"
      [] OTHER -> "STRIKEOUT"

RECURSIVE sgr_loop(_, _, _)
\* the while loop of handle_sgr; i counts from 1 here
sgr_loop(st, params, i) ==
    IF i > Len(params) THEN st
    ELSE
    LET n == params[i]
        rest == SubSeq(params, i, Len(params))
        ext == parse_extended_color(rest)
        skip == IF n \in {38, 48} /\ ext # <<>> THEN extended_color_params(rest) ELSE 0
        st1 ==
          CASE n = 0 -> [fg |-> Color_EMERALD, bg |-> Color_BLACK, flags |-> {}]
            [] n \in {1, 3, 4, 5, 7, 8, 9} -> [st EXCEPT !.flags = @ \cup {sgr_flag(n)}]
            [] n \in {22, 23, 24, 25, 27, 28, 29} ->
                   [st EXCEPT !.flags = @ \ {sgr_flag(IF n = 22 THEN 1 ELSE n - 20)}]
            [] n >= 30 /\ n <= 37 -> [st EXCEPT !.fg = standard_colors(n - 30)]
            [] n = 38 -> IF ext # <<>> THEN [st EXCEPT !.fg = ext[1]] ELSE st
            [] n = 39 -> [st EXCEPT !.fg = Color_EMERALD]
            [] n >= 40 /\ n <= 47 -> [st EXCEPT !.bg = standard_colors(n - 40)]
            [] n = 48 -> IF ext # <<>> THEN [st EXCEPT !.bg = ext[1]] ELSE st
            [] n = 49 -> [st EXCEPT !.bg = Color_BLACK]
            [] n >= 90 /\ n <= 97 -> [st EXCEPT !.fg = bright_colors(n - 90)]
            [] n >= 100 /\ n <= 107 -> [st EXCEPT !.bg = bright_colors(n - 100)]
            [] OTHER -> st
    IN sgr_loop(st1, params, i + skip + 1)

handle_sgr(t, params) ==
    IF params = <<>>
    THEN [t EXCEPT !.current_style =
                      [fg |-> Color_EMERALD, bg |-> Color_BLACK, flags |-> {}]]
    ELSE [t EXCEPT !.current_style = sgr_loop(t.current_style, params, 1)]

set_mode(t, flag, enable) ==
    IF enable THEN [t EXCEPT !.mode = @ \cup {flag}] ELSE [t EXCEPT !.mode = @ \ {flag}]

handle_mode_one(t, enable, param, is_private) ==
    IF is_private
    THEN CASE param = 1 -> set_mode(t, "CURSOR_KEYS_APP", enable)
           [] param = 25 -> [t EXCEPT !.cursor.visible = enable]
           [] param = 7 -> set_mode(t, "AUTO_WRAP", enable)
           [] param \in {1049, 47, 1047} ->
                  IF enable THEN enter_alt_screen(t) ELSE exit_alt_screen(t)
           [] param = 2004 -> set_mode(t, "BRACKETED_PASTE", enable)
           [] param \in {1000, 1002, 1003, 1006, 1015} -> set_mode(t, "MOUSE_TRACKING", enable)
           [] OTHER -> t
    ELSE CASE param = 4 -> set_mode(t, "INSERT", enable)
           [] OTHER -> t

RECURSIVE handle_mode(_, _, _, _)
handle_mode(t, enable, params, is_private) ==
    IF params = <<>> THEN t
    ELSE handle_mode(handle_mode_one(t, enable, Head(params), is_private),
                     enable, Tail(params), is_private)

\* let get = |idx, default| params.get(idx).copied().unwrap_or(default)   (idx from 0)
get(params, idx, default) ==
    IF idx + 1 <= Len(params) THEN params[idx + 1] ELSE default

\* params: the first value of every parameter group; action: the final byte
csi_dispatch(t, params, intermediates, action) ==
    LET is_private == \E k \in DOMAIN intermediates : intermediates[k] = 63
    IN
    CASE action = 65 -> move_cursor(t, 0, -get(params, 0, 1))
      [] action = 66 -> move_cursor(t, 0, get(params, 0, 1))
      [] action = 67 -> move_cursor(t, get(params, 0, 1), 0)
      [] action = 68 -> move_cursor(t, -get(params, 0, 1), 0)
      [] action = 69 -> carriage_return(move_cursor(t, 0, get(params, 0, 1)))
      [] action = 70 -> carriage_return(move_cursor(t, 0, -get(params, 0, 1)))
      [] action = 71 -> [t EXCEPT !.cursor.col = saturating_sub(get(params, 0, 1), 1)]
      [] action \in {72, 102} ->
            move_cursor_to(t, saturating_sub(get(params, 1, 1), 1),
                              saturating_sub(get(params, 0, 1), 1))
      [] action = 74 ->
            (CASE get(params, 0, 0) = 0 -> erase_display_to_end(t)
               [] get(params, 0, 0) = 1 -> erase_display_to_start(t)
               [] get(params, 0, 0) \in {2, 3} -> erase_display(t)
               [] OTHER -> t)
      [] action = 75 ->
            (CASE get(params, 0, 0) = 0 -> erase_line_to_end(t)
               [] get(params, 0, 0) = 1 -> erase_line_to_start(t)
               [] get(params, 0, 0) = 2 -> erase_line(t)
               [] OTHER -> t)
      [] action = 83 -> scroll_up(t, get(params, 0, 1))
      [] action = 84 -> scroll_down(t, get(params, 0, 1))
      [] action = 109 -> handle_sgr(t, params)
      [] action = 114 ->
            LET rows == active_grid(t).rows
                top == saturating_sub(get(params, 0, 1), 1)
                bottom == get(params, 1, rows % 65536)
            IN move_cursor_to([t EXCEPT !.scroll_top = top,
                                        !.scroll_bottom = Min(saturating_sub(bottom, 1), rows - 1)],
                              0, 0)
      [] action = 115 -> save_cursor(t)
      [] action = 117 -> restore_cursor(t)
      [] action = 104 -> handle_mode(t, TRUE, params, is_private)
      [] action = 108 -> handle_mode(t, FALSE, params, is_private)
      [] action = 113 ->
            [t EXCEPT !.cursor.shape =
                CASE get(params, 0, 0) \in {3, 4} -> "Underline"
                  [] get(params, 0, 0) \in {5, 6} -> "Beam"
                  [] OTHER -> "Block"]
      [] action = 110 ->
            (CASE get(params, 0, 0) = 5 -> queue_response(t, <<27, 91, 48, 110>>)
               [] get(params, 0, 0) = 6 -> report_cursor_position(t)
               [] OTHER -> t)
      [] OTHER -> t

\* esc_dispatch with a reset that keeps the saved cursor
esc_dispatch_keeping_saved_cursor(t, byte) ==
    CASE byte = 55 -> save_cursor(t)
      [] byte = 56 -> restore_cursor(t)
      [] byte = 68 -> linefeed(t)
      [] byte = 69 -> carriage_return(linefeed(t))
      [] byte = 77 -> scroll_down(t, 1)
      [] byte = 99 -> [Terminal_new(active_grid(t).cols, active_grid(t).rows)
                         EXCEPT !.saved_cursor = t.saved_cursor]
      [] OTHER -> t

esc_dispatch(t, byte) ==
    CASE byte = 55 -> save_cursor(t)
      [] byte = 56 -> restore_cursor(t)
      [] byte = 68 -> linefeed(t)
      [] byte = 69 -> carriage_return(linefeed(t))
      [] byte = 77 -> scroll_down(t, 1)
      [] byte = 99 -> Terminal_new(active_grid(t).cols, active_grid(t).rows)
      [] OTHER -> t

\* u8::from_str_radix(hex, 16) of two characters: a hex digit's value, -1 if none
hex_val(c) ==
    CASE c >= 48 /\ c <= 57  -> c - 48
      [] c >= 65 /\ c <= 70  -> c - 55
      [] c >= 97 /\ c <= 102 -> c - 87
      [] OTHER -> -1

RECURSIVE url_decode(_)
\* from_str_radix also takes a leading '+' before a single digit
url_decode(s) ==
    IF s = <<>> THEN <<>>
    ELSE IF Head(s) # 37 THEN <<Head(s)>> \o url_decode(Tail(s))
    ELSE LET hex == SubSeq(s, 2, Min(Len(s), 3))
             rest == SubSeq(s, Len(hex) + 2, Len(s))
             ok == /\ Len(hex) = 2
                   /\ hex_val(hex[2]) >= 0
                   /\ (hex_val(hex[1]) >= 0 \/ hex[1] = 43)
             byte == IF hex[1] = 43 THEN hex_val(hex[2])
                     ELSE 16 * hex_val(hex[1]) + hex_val(hex[2])
         IN IF ok THEN <<byte>> \o url_decode(rest)
            ELSE <<37>> \o hex \o url_decode(rest)

RECURSIVE find_slash(_, _)
\* rest.find('/'): the position (from 1) of the first '/' at or after k, 0 if none
find_slash(s, k) ==
    IF k > Len(s) THEN 0 ELSE IF s[k] = 47 THEN k ELSE find_slash(s, k + 1)

\* <<path>>, or <<>> for None
parse_osc7_path(url) ==
    IF ~IsPrefix(<<102, 105, 108, 101, 58, 47, 47>>, url) THEN <<>>
    ELSE LET rest == SubSeq(url, 8, Len(url))
             path_start == find_slash(rest, 1)
         IN IF path_start = 0 THEN <<>>
            ELSE <<url_decode(SubSeq(rest, path_start, Len(rest)))>>

RECURSIVE strip_zeros(_)
strip_zeros(s) == IF s # <<>> /\ Head(s) = 48 THEN strip_zeros(Tail(s)) ELSE s

RECURSIVE small_value(_, _)
small_value(s, acc) ==
    IF s = <<>> THEN acc ELSE small_value(Tail(s), 10 * acc + (Head(s) - 48))

\* code_str.parse::<u32>().unwrap_or(0), told apart only as far as the match
\* needs: 0 for a parse error (empty, a non-digit, past u32::MAX), the value
\* when it has at most four digits, and 10000 for every larger u32
osc_code_num(code) ==
    LET body == IF code # <<>> /\ Head(code) = 43 THEN Tail(code) ELSE code
        digits == strip_zeros(body)
        u32max == <<52, 50, 57, 52, 57, 54, 55, 50, 57, 53>>
        gt_max == \E k \in 1 .. 10 :
                     /\ \A j \in 1 .. (k - 1) : digits[j] = u32max[j]
                     /\ digits[k] > u32max[k]
    IN IF body = <<>> \/ \E k \in DOMAIN body : body[k] < 48 \/ body[k] > 57 THEN 0
       ELSE IF Len(digits) > 10 \/ (Len(digits) = 10 /\ gt_max) THEN 0
       ELSE IF Len(digits) > 4 THEN 10000
       ELSE small_value(digits, 0)

\* params: the byte strings between the ';' of the OSC string
osc_dispatch(t, params) ==
    IF params = <<>> THEN t
    ELSE LET code_num == osc_code_num(params[1])
         IN CASE code_num \in {0, 2} ->
                    IF Len(params) > 1 THEN [t EXCEPT !.title = params[2]] ELSE t
              [] code_num = 7 ->
                    IF Len(params) > 1 /\ parse_osc7_path(params[2]) # <<>>
                    THEN [t EXCEPT !.cwd = parse_osc7_path(params[2])[1]]
                    ELSE t
              [] OTHER -> t

-----------------------------------------------------------------------------
(* The vte state machine behind AnsiParser::parser, for 7-bit bytes (the *)
(* UTF-8 decoding of bytes from 0x80 up is not modelled).                *)

\* params: the closed parameter groups; cur: the values of the open group
Parser_new ==
    [state         |-> "Ground",
     params        |-> <<>>,
     cur           |-> <<>>,
     param         |-> 0,
     intermediates |-> <<>>,
     ignoring      |-> FALSE,
     osc_params    |-> <<>>,
     osc_cur       |-> <<>>]

RECURSIVE params_len(_)
params_len(groups) ==
    IF groups = <<>> THEN 0 ELSE Len(Head(groups)) + params_len(Tail(groups))

params_is_full(p) == params_len(p.params) + Len(p.cur) = 32

params_push(p, item) ==
    [p EXCEPT !.params = Append(@, Append(p.cur, item)), !.cur = <<>>]

params_extend(p, item) == [p EXCEPT !.cur = Append(@, item)]

\* params.iter().map(|p| p.first().copied().unwrap_or(0)).collect()
first_of_groups(groups) == [k \in DOMAIN groups |-> groups[k][1]]

C0_execute(b) == (b >= 0 /\ b <= 23) \/ b = 25 \/ (b >= 28 /\ b <= 31)

\* The transition table: <<next state, action>>, "Anywhere" for no change.
state_change(state, b) ==
    CASE b \in {24, 26} -> <<"Ground", "Execute">>
      [] b = 27 -> <<"Escape", "None">>
      [] state = "Ground" ->
            IF C0_execute(b) THEN <<"Anywhere", "Execute">> ELSE <<"Anywhere", "Print">>
      [] state = "Escape" ->
            (CASE C0_execute(b) -> <<"Anywhere", "Execute">>
               [] b = 127 -> <<"Anywhere", "Ignore">>
               [] b >= 32 /\ b <= 47 -> <<"EscapeIntermediate", "Collect">>
               [] b = 80 -> <<"DcsEntry", "None">>
               [] b \in {88, 94, 95} -> <<"SosPmApcString", "None">>
               [] b = 91 -> <<"CsiEntry", "None">>
               [] b = 93 -> <<"OscString", "None">>
               [] OTHER -> <<"Ground", "EscDispatch">>)
      [] state = "EscapeIntermediate" ->
            (CASE C0_execute(b) -> <<"Anywhere", "Execute">>
               [] b = 127 -> <<"Anywhere", "Ignore">>
               [] b >= 32 /\ b <= 47 -> <<"Anywhere", "Collect">>
               [] OTHER -> <<"Ground", "EscDispatch">>)
      [] state = "CsiEntry" ->
            (CASE C0_execute(b) -> <<"Anywhere", "Execute">>
               [] b = 127 -> <<"Anywhere", "Ignore">>
               [] b >= 32 /\ b <= 47 -> <<"CsiIntermediate", "Collect">>
               [] b >= 48 /\ b <= 59 -> <<"CsiParam", "Param">>
               [] b >= 60 /\ b <= 63 -> <<"CsiParam", "Collect">>
               [] OTHER -> <<"Ground", "CsiDispatch">>)
      [] state = "CsiParam" ->
            (CASE C0_execute(b) -> <<"Anywhere", "Execute">>
               [] b = 127 -> <<"Anywhere", "Ignore">>
               [] b >= 32 /\ b <= 47 -> <<"CsiIntermediate", "Collect">>
               [] b >= 48 /\ b <= 59 -> <<"Anywhere", "Param">>
               [] b >= 60 /\ b <= 63 -> <<"CsiIgnore", "None">>
               [] OTHER -> <<"Ground", "CsiDispatch">>)
      [] state = "CsiIntermediate" ->
            (CASE C0_execute(b) -> <<"Anywhere", "Execute">>
               [] b = 127 -> <<"Anywhere", "Ignore">>
               [] b >= 32 /\ b <= 47 -> <<"Anywhere", "Collect">>
               [] b >= 48 /\ b <= 63 -> <<"CsiIgnore", "None">>
               [] OTHER -> <<"Ground", "CsiDispatch">>)
      [] state = "CsiIgnore" ->
            (CASE C0_execute(b) -> <<"Anywhere", "Execute">>
               [] b >= 64 /\ b <= 126 -> <<"Ground", "None">>
               [] OTHER -> <<"Anywhere", "Ignore">>)
      [] state = "OscString" ->
            (CASE b = 7 -> <<"Ground", "Ignore">>
               [] C0_execute(b) -> <<"Anywhere", "Ignore">>
               [] OTHER -> <<"Anywhere", "OscPut">>)
      [] state = "DcsEntry" ->
            (CASE C0_execute(b) \/ b = 127 -> <<"Anywhere", "Ignore">>
               [] b >= 32 /\ b <= 47 -> <<"DcsIntermediate", "Collect">>
               [] b = 58 -> <<"DcsIgnore", "None">>
               [] b >= 48 /\ b <= 59 -> <<"DcsParam", "Param">>
               [] b >= 60 /\ b <= 63 -> <<"DcsParam", "Collect">>
               [] OTHER -> <<"DcsPassthrough", "None">>)
      [] state = "DcsParam" ->
            (CASE C0_execute(b) \/ b = 127 -> <<"Anywhere", "Ignore">>
               [] b >= 32 /\ b <= 47 -> <<"DcsIntermediate", "Collect">>
               [] b = 58 \/ (b >= 60 /\ b <= 63) -> <<"DcsIgnore", "None">>
               [] b >= 48 /\ b <= 59 -> <<"Anywhere", "Param">>
               [] OTHER -> <<"DcsPassthrough", "None">>)
      [] state = "DcsIntermediate" ->
            (CASE C0_execute(b) \/ b = 127 -> <<"Anywhere", "Ignore">>
               [] b >= 32 /\ b <= 47 -> <<"Anywhere", "Collect">>
               [] b >= 48 /\ b <= 63 -> <<"DcsIgnore", "None">>
               [] OTHER -> <<"DcsPassthrough", "None">>)
      [] state = "DcsPassthrough" ->
            IF b = 127 THEN <<"Anywhere", "Ignore">> ELSE <<"Anywhere", "Put">>
      [] OTHER -> <<"Anywhere", "Ignore">>     \* DcsIgnore, SosPmApcString

osc_end(p) ==
    IF Len(p.osc_params) = 16 THEN p
    ELSE [p EXCEPT !.osc_params = Append(@, p.osc_cur), !.osc_cur = <<>>]

\* one action of the machine, with the callback it makes: [p, t]
perform_action(p, t, action, byte) ==
    CASE action = "Print" -> [p |-> p, t |-> print(t, byte)]
      [] action = "Execute" -> [p |-> p, t |-> execute(t, byte)]
      [] action = "Clear" ->
            [p |-> [p EXCEPT !.params = <<>>, !.cur = <<>>, !.param = 0,
                             !.intermediates = <<>>, !.ignoring = FALSE],
             t |-> t]
      [] action = "Collect" ->
            [p |-> IF Len(p.intermediates) = 2
                   THEN [p EXCEPT !.ignoring = TRUE]
                   ELSE [p EXCEPT !.intermediates = Append(@, byte)],
             t |-> t]
      [] action = "Param" ->
            [p |-> IF params_is_full(p) THEN [p EXCEPT !.ignoring = TRUE]
                   ELSE IF byte = 59 THEN [params_push(p, p.param) EXCEPT !.param = 0]
                   ELSE IF byte = 58 THEN [params_extend(p, p.param) EXCEPT !.param = 0]
                   ELSE [p EXCEPT !.param = Min(10 * @ + (byte - 48), 65535)],
             t |-> t]
      [] action = "CsiDispatch" ->
            LET p1 == IF params_is_full(p) THEN [p EXCEPT !.ignoring = TRUE]
                      ELSE params_push(p, p.param)
            IN [p |-> p1,
                t |-> csi_dispatch(t, first_of_groups(p1.params), p1.intermediates, byte)]
      [] action = "EscDispatch" -> [p |-> p, t |-> esc_dispatch(t, byte)]
      [] action = "Hook" ->
            [p |-> IF params_is_full(p) THEN [p EXCEPT !.ignoring = TRUE]
                   ELSE params_push(p, p.param),
             t |-> t]
      [] action = "OscStart" ->
            [p |-> [p EXCEPT !.osc_params = <<>>, !.osc_cur = <<>>], t |-> t]
      [] action = "OscPut" ->
            [p |-> IF byte = 59
                   THEN osc_end(p)
                   ELSE IF params_len(p.osc_params) + Len(p.osc_cur) < 1024
                        THEN [p EXCEPT !.osc_cur = Append(@, byte)]
                        ELSE p,
             t |-> t]
      [] action = "OscEnd" ->
            LET p1 == osc_end(p)
            IN [p |-> p1, t |-> osc_dispatch(t, p1.osc_params)]
      [] OTHER -> [p |-> p, t |-> t]       \* None, Ignore, Put, Unhook

exit_action(state) ==
    CASE state = "OscString" -> "OscEnd"
      [] state = "DcsPassthrough" -> "Unhook"
      [] OTHER -> "None"

entry_action(state) ==
    CASE state \in {"Escape", "CsiEntry", "DcsEntry"} -> "Clear"
      [] state = "OscString" -> "OscStart"
      [] state = "DcsPassthrough" -> "Hook"
      [] OTHER -> "None"

\* Parser::advance(performer, byte): [p, t]. The exit action of the old state,
\* the action of the transition and the entry action of the new state run in
\* this order, each on the result of the one before.
advance(p, t, byte) ==
    LET change == state_change(p.state, byte)
        state == change[1]
        action == change[2]
    IN IF state = "Anywhere"
       THEN perform_action(p, t, action, byte)
       ELSE CHOOSE r \in
              {[p |-> [s3.p EXCEPT !.state = state], t |-> s3.t] :
                 s3 \in {perform_action(s2.p, s2.t, entry_action(state), byte) :
                   s2 \in {perform_action(s1.p, s1.t, action, byte) :
                     s1 \in {perform_action(p, t, exit_action(p.state), byte)}}}}
            : TRUE

RECURSIVE process_from(_, _, _)
\* for byte in data { self.parser.advance(&mut performer, *byte) }
process_from(p, t, data) ==
    IF data = <<>> \/ t.panicked THEN [p |-> p, t |-> t]
    ELSE CHOOSE r \in {process_from(s.p, s.t, Tail(data)) :
                          s \in {advance(p, t, Head(data))}} : TRUE

\* AnsiParser::process(terminal, data): [p, t]
process_with_fresh_parser(p, t, data) == process_from(Parser_new, t, data)
process(p, t, data) == process_from(p, t, data)

-----------------------------------------------------------------------------
(* Byte strings fed to the parser *)

Csi(body, final) == <<27, 91>> \o body \o <<final>>

\* CSI a ; b final
Csi2(a, b, final) == Csi(Digits(a) \o <<59>> \o Digits(b), final)

\* CSI ? n h   and   CSI ? n l
DecSet(n) == Csi(<<63>> \o Digits(n), 104)
DecRst(n) == Csi(<<63>> \o Digits(n), 108)

Sizes == (1 .. MaxCols) \X (1 .. MaxRows)

\* what a shell may send in one read: text, C0 controls, cursor addressing
\* past the grid, scroll regions in and out of order, save / restore, the
\* alternate screen, auto-wrap off and on, erasure, full reset
TermChunks ==
    {<<97>>, <<10>>, <<13>>, <<8>>, <<9>>}
    \cup {Csi(Digits(MaxParam), 71)}
    \cup {Csi2(MaxParam, MaxParam, 72), Csi(<<>>, 72)}
    \cup {Csi2(MaxParam, 1, 114), Csi2(1, MaxParam, 114), Csi(<<>>, 114)}
    \cup {Csi(<<>>, 115), Csi(<<>>, 117)}
    \cup {DecSet(1049), DecRst(1049), DecRst(7), DecSet(7)}
    \cup {Csi(<<50>>, 74), <<27, 99>>}

\* what a full-screen program does between entering and leaving the
\* alternate screen: printing, line feeds, erasing, scrolling, cursor
\* addressing, styling; no resize and no full reset
AltChunks ==
    {<<97>>, <<98>>, <<10>>, <<13>>}
    \cup {Csi(<<50>>, 74), Csi(<<>>, 75)}
    \cup {Csi(<<49>>, 83), Csi(<<49>>, 84)}
    \cup {Csi(<<>>, 72), Csi(<<51, 49>>, 109)}
    \cup {DecSet(1049), DecRst(1049)}

-----------------------------------------------------------------------------
(* States and actions *)

TermInit ==
    /\ \E size \in Sizes : terminal = Terminal_new(size[1], size[2])
    /\ parser = Parser_new
    /\ overflow_checks \in BOOLEAN
    /\ nops = 0

ChunkIdle == input = <<>> /\ fed = 0

\* Option<Vec<u8>>
None == [some |-> FALSE, data |-> <<>>]
Some(bytes) == [some |-> TRUE, data |-> bytes]

PtyIdle ==
    /\ output_q = <<>>
    /\ input_q = <<>>
    /\ reader = [pc |-> "read", buf |-> <<>>]
    /\ writer = [pc |-> "recv", data |-> <<>>]
    /\ main = [pc |-> "idle", pending |-> <<>>, result |-> <<>>, caller |-> "none"]
    /\ nread = 0
    /\ nwritten = 0
    /\ readLog = <<>>
    /\ dropLog = {}
    /\ parserStream = <<>>
    /\ lastRead = [called |-> FALSE, done |-> FALSE, atCall |-> <<>>,
                   taken |-> <<>>, ret |-> None]
    /\ writeLog = <<>>
    /\ writeRet = <<>>
    /\ delivered = <<>>

\* no cursor has been saved and the alternate screen has not been entered
NoCursor == [some |-> FALSE, cur |-> Cursor_default]
HistIdle == hist = [op |-> "none", saved |-> NoCursor, entry |-> NoCursor]

GridIdle == grid = [g |-> Grid_new(1, 1), op |-> "new", col |-> 0, row |-> 0,
                     cell |-> Cell_default]
LayoutIdle ==
    layout = [tree |-> <<"Single", 1>>, panes |-> {1}, focused_pane |-> 1, next_id |-> 2,
              op |-> "none"]
\* GlyphAtlas::new(width, height); last is the latest get_or_insert call
GlyphAtlas_new(w, h) ==
    [glyphs |-> <<>>, cursor_x |-> 0, cursor_y |-> 0, row_height |-> 0,
     width |-> w, height |-> h, dirty |-> TRUE, panicked |-> FALSE,
     last |-> [c |-> 0, some |-> FALSE, placed |-> FALSE]]
AtlasIdle == atlas = GlyphAtlas_new(1, 1)
HostIdle == app = <<>> /\ pty = <<>> /\ window = <<>> /\ frame = <<>>

AuxIdle == HistIdle /\ GridIdle /\ LayoutIdle /\ AtlasIdle /\ HostIdle

\* AnsiParser::process(&mut terminal, data) on the pane's parser and terminal
Process(data) ==
    /\ nops < MaxOps
    /\ ~terminal.panicked
    /\ LET s == process(parser, terminal, data)
       IN /\ parser' = s.p
          /\ terminal' = s.t
    /\ nops' = nops + 1
    /\ UNCHANGED <<overflow_checks, chunkVars, ptyVars, auxVars>>

\* Terminal::resize(cols, rows), as Pane::resize calls it
Resize(cols, rows) ==
    /\ nops < MaxOps
    /\ ~terminal.panicked
    /\ terminal' = Terminal_resize(terminal, cols, rows)
    /\ nops' = nops + 1
    /\ UNCHANGED <<parser, overflow_checks, chunkVars, ptyVars, auxVars>>

InitTerm == TermInit /\ ChunkIdle /\ PtyIdle /\ AuxIdle

NextTerm ==
    \/ \E data \in TermChunks : Process(data)
    \/ \E size \in Sizes : Resize(size[1], size[2])

SpecTerm == InitTerm /\ [][NextTerm]_vars

-----------------------------------------------------------------------------
(* Chunking runs: one byte sequence B, handed to process in pieces *)

\* ESC [ 2 ; H a LF
ChunkBytes == {27, 91, 50, 59, 72, 97, 10}

RECURSIVE SeqsUpTo(_, _)
SeqsUpTo(S, n) ==
    IF n = 0 THEN {<<>>}
    ELSE LET shorter == SeqsUpTo(S, n - 1)
         IN shorter \cup {Append(q, x) : q \in {r \in shorter : Len(r) = n - 1}, x \in S}

ChunkTerminal == Terminal_new(MaxCols, MaxRows)

InitChunk ==
    /\ input \in SeqsUpTo(ChunkBytes, MaxInput)
    /\ fed = 0
    /\ terminal = ChunkTerminal
    /\ parser = Parser_new
    /\ overflow_checks \in BOOLEAN
    /\ nops = 0
    /\ PtyIdle
    /\ AuxIdle

\* parser.process(&mut terminal, &B[fed .. fed + k]): the next k bytes of B
ProcessChunk(k) ==
    /\ fed + k <= Len(input)
    /\ ~terminal.panicked
    /\ LET s == process(parser, terminal, SubSeq(input, fed + 1, fed + k))
       IN /\ parser' = s.p
          /\ terminal' = s.t
    /\ fed' = fed + k
    /\ nops' = nops + 1
    /\ UNCHANGED <<overflow_checks, input, ptyVars, auxVars>>

NextChunk == \E k \in 1 .. MaxInput : ProcessChunk(k)

SpecChunk == InitChunk /\ [][NextChunk]_vars

\* a session without resize and without full reset
NextAlt == \E data \in AltChunks : Process(data)

SpecAlt == InitTerm /\ [][NextAlt]_vars

-----------------------------------------------------------------------------
(* Claims *)

\* C1: the cursor stays inside the active grid:
\* 0 <= cursor.col < cols and 0 <= cursor.row < rows.
CursorInBounds ==
    /\ 0 <= terminal.cursor.col /\ terminal.cursor.col < active_grid(terminal).cols
    /\ 0 <= terminal.cursor.row /\ terminal.cursor.row < active_grid(terminal).rows

\* C2: the scroll region is well formed: scroll_top <= scroll_bottom < rows.
ScrollRegionOrdered ==
    /\ terminal.scroll_top <= terminal.scroll_bottom
    /\ terminal.scroll_bottom < active_grid(terminal).rows

\* C10: from enter_alt_screen to the matching exit_alt_screen no call changes
\* a cell of the main grid, and on exit the active grid shows those cells.
MainGridKeptInAltScreen ==
    [][/\ ("ALT_SCREEN" \in terminal.mode \/ "ALT_SCREEN" \in terminal'.mode)
            => terminal'.grid.cells = terminal.grid.cells
       /\ ("ALT_SCREEN" \in terminal.mode /\ "ALT_SCREEN" \notin terminal'.mode)
            => active_grid(terminal').cells = terminal.grid.cells]_vars

\* the main screen shows its 'a' again after a 'b' was written on the alternate screen
AltRoundTripDone ==
    /\ "ALT_SCREEN" \notin terminal.mode
    /\ terminal.grid.cols >= 1
    /\ terminal.grid.cells[0].character = 97
    /\ terminal.alt_grid.cells[0].character = 98

\* C3: however B is cut into chunks, the parser and the terminal after the
\* chunks processed so far are those of one process call on the same bytes.
ChunkingInvisible ==
    [p |-> parser, t |-> terminal]
        = process(Parser_new, ChunkTerminal, SubSeq(input, 1, fed))

\* ESC [ 2 H arrived in more than one chunk and moved the cursor to row 1
SplitSequenceApplied ==
    /\ input = <<27, 91, 50, 72>>
    /\ fed = Len(input)
    /\ nops >= 2
    /\ terminal.cursor.row = 1

-----------------------------------------------------------------------------
(* pty.rs: the two bounded channels, the reader and writer threads, and      *)
(* Pty::read / Pty::write as called from the main thread                     *)

\* crossbeam Sender::try_send on bounded(ChannelCap): Err(Full) leaves the
\* queue as it was and the message is gone with the error
try_send_drop_oldest(q, msg) ==
    IF Len(q) < ChannelCap THEN [ok |-> TRUE, q |-> Append(q, msg)]
    ELSE [ok |-> TRUE, q |-> Append(Tail(q), msg)]
try_send(q, msg) ==
    IF Len(q) < ChannelCap THEN [ok |-> TRUE, q |-> Append(q, msg)]
    ELSE [ok |-> FALSE, q |-> q]

\* crossbeam Receiver::try_recv: the oldest message, or Err when there is none
try_recv_newest(q) ==
    IF q = <<>> THEN [ok |-> FALSE, data |-> <<>>, q |-> q]
    ELSE [ok |-> TRUE, data |-> q[Len(q)], q |-> SubSeq(q, 1, Len(q) - 1)]
try_recv(q) ==
    IF q = <<>> THEN [ok |-> FALSE, data |-> <<>>, q |-> q]
    ELSE [ok |-> TRUE, data |-> Head(q), q |-> Tail(q)]

\* crossbeam Sender::send on bounded(ChannelCap): Err once the receiver is
\* dropped, otherwise it waits for room
send_failing_when_full(q, msg, disconnected) ==
    IF disconnected \/ Len(q) >= ChannelCap THEN [status |-> "err", q |-> q]
    ELSE [status |-> "ok", q |-> Append(q, msg)]
send(q, msg, disconnected) ==
    IF disconnected THEN [status |-> "err", q |-> q]
    ELSE IF Len(q) < ChannelCap THEN [status |-> "ok", q |-> Append(q, msg)]
    ELSE [status |-> "blocked", q |-> q]

\* crossbeam Receiver::recv with a message waiting
recv_newest(q) == [data |-> q[Len(q)], q |-> SubSeq(q, 1, Len(q) - 1)]
recv(q) == [data |-> Head(q), q |-> Tail(q)]

\* one turn of the loop of Pty::read: while let Ok(data) = try_recv()
Pty_read_step_single(q, result) ==
    LET r == try_recv(q)
    IN [done |-> TRUE, q |-> r.q, result |-> result \o r.data, popped |-> r.ok,
        data |-> r.data]
Pty_read_step(q, result) ==
    LET r == try_recv(q)
    IN IF r.ok THEN [done |-> FALSE, q |-> r.q, result |-> result \o r.data,
                     popped |-> TRUE, data |-> r.data]
       ELSE [done |-> TRUE, q |-> q, result |-> result, popped |-> FALSE,
             data |-> <<>>]

\* if result.is_empty() { None } else { Some(result) }
Pty_read_return(result) == IF result = <<>> THEN None ELSE Some(result)

\* what the child writes: a letter, or a device status request (ESC [ 5 n)
PtyChunks == {<<97>>, Csi(<<53>>, 110)}
\* what the main thread writes for a key press
KeyChunks == {<<120>>}

\* pty-reader: reader.read(&mut buffer) returned Ok(n), n > 0
ReaderRead(data) ==
    /\ reader.pc = "read"
    /\ nread < MaxReads
    /\ reader' = [pc |-> "send", buf |-> data]
    /\ nread' = nread + 1
    /\ readLog' = Append(readLog, data)
    /\ UNCHANGED <<termVars, chunkVars, auxVars, output_q, input_q, writer, main, nwritten,
                   dropLog, parserStream, lastRead, writeLog, writeRet, delivered>>

\* pty-reader: let _ = output_tx.try_send(buffer[..n].to_vec())
ReaderTrySend ==
    /\ reader.pc = "send"
    /\ LET r == try_send(output_q, reader.buf)
       IN /\ output_q' = r.q
          /\ dropLog' = IF r.ok THEN dropLog ELSE dropLog \cup {Len(readLog)}
    /\ reader' = [pc |-> "read", buf |-> <<>>]
    /\ UNCHANGED <<termVars, chunkVars, auxVars, input_q, writer, main, nread, nwritten,
                   readLog, parserStream, lastRead, writeLog, writeRet, delivered>>

\* pty-reader: Ok(0) or Err(e), the loop breaks and the thread ends
ReaderEnd ==
    /\ reader.pc = "read"
    /\ reader' = [pc |-> "done", buf |-> <<>>]
    /\ UNCHANGED <<termVars, chunkVars, auxVars, output_q, input_q, writer, main, nread,
                   nwritten, readLog, dropLog, parserStream, lastRead, writeLog,
                   writeRet, delivered>>

\* pty-writer: while let Ok(data) = input_rx.recv()
WriterRecv ==
    /\ writer.pc = "recv"
    /\ input_q # <<>>
    /\ LET r == recv(input_q)
       IN /\ input_q' = r.q
          /\ writer' = [writer EXCEPT !.pc = "write", !.data = r.data]
    /\ UNCHANGED <<termVars, chunkVars, auxVars, output_q, reader, main, nread, nwritten,
                   readLog, dropLog, parserStream, lastRead, writeLog, writeRet,
                   delivered>>

\* pty-writer: writer.write_all(&data) returned Ok; the flush result is ignored
WriterWriteOk ==
    /\ writer.pc = "write"
    /\ delivered' = Append(delivered, writer.data)
    /\ writer' = [writer EXCEPT !.pc = "recv", !.data = <<>>]
    /\ UNCHANGED <<termVars, chunkVars, auxVars, output_q, input_q, reader, main, nread,
                   nwritten, readLog, dropLog, parserStream, lastRead, writeLog,
                   writeRet>>

\* pty-writer: writer.write_all(&data) returned Err; break. The bytes of the
\* chunk that reached the master before the error are not part of delivered.
WriterWriteErr ==
    /\ writer.pc = "write"
    /\ writer' = [writer EXCEPT !.pc = "exiting"]
    /\ UNCHANGED <<termVars, chunkVars, auxVars, output_q, input_q, reader, main, nread,
                   nwritten, readLog, dropLog, parserStream, lastRead, writeLog,
                   writeRet, delivered>>

\* pty-writer: the closure returns and input_rx is dropped
WriterExit ==
    /\ writer.pc = "exiting"
    /\ writer' = [writer EXCEPT !.pc = "done"]
    /\ UNCHANGED <<termVars, chunkVars, auxVars, output_q, input_q, reader, main, nread,
                   nwritten, readLog, dropLog, parserStream, lastRead, writeLog,
                   writeRet, delivered>>

\* main thread: a key press or a paste calls pane.pty.write(&bytes)
KeyInput(data) ==
    /\ main.pc = "idle"
    /\ nwritten < MaxWrites
    /\ nwritten' = nwritten + 1
    /\ main' = [main EXCEPT !.pc = "send", !.pending = data, !.caller = "key"]
    /\ UNCHANGED <<termVars, chunkVars, auxVars, output_q, input_q, reader, writer, nread,
                   readLog, dropLog, parserStream, lastRead, writeLog, writeRet,
                   delivered>>

\* Pty::write: self.input_tx.send(data.to_vec()) returns, Ok or Err
WriteReturn ==
    /\ main.pc = "send"
    /\ LET r == send(input_q, main.pending, writer.pc = "done")
       IN /\ r.status # "blocked"
          /\ input_q' = r.q
          /\ writeRet' = Append(writeRet, r.status)
          /\ writeLog' = IF r.status = "ok" THEN Append(writeLog, main.pending)
                         ELSE writeLog
    /\ main' = [main EXCEPT !.pc = "idle", !.pending = <<>>, !.caller = "none"]
    /\ UNCHANGED <<termVars, chunkVars, auxVars, output_q, reader, writer, nread, nwritten,
                   readLog, dropLog, parserStream, lastRead, delivered>>

\* Pane::update calls self.pty.read(): let mut result = Vec::new()
UpdateBegin ==
    /\ main.pc = "idle"
    /\ main' = [main EXCEPT !.pc = "read", !.result = <<>>, !.caller = "update"]
    /\ lastRead' = [called |-> TRUE, done |-> FALSE, atCall |-> output_q,
                    taken |-> <<>>, ret |-> None]
    /\ UNCHANGED <<termVars, chunkVars, auxVars, output_q, input_q, reader, writer, nread,
                   nwritten, readLog, dropLog, parserStream, writeLog, writeRet,
                   delivered>>

\* Pty::read: one try_recv; on Err the call returns and Pane::update goes on:
\* None ends it, Some(data) is processed and a pending reply is written back
ReadStep ==
    /\ main.pc = "read"
    /\ LET r == Pty_read_step(output_q, main.result)
           ret == Pty_read_return(r.result)
           s == process(parser, terminal, ret.data)
           reply == take_response_value(s.t)
       IN /\ output_q' = r.q
          /\ lastRead' = [lastRead EXCEPT
                            !.taken = IF r.popped THEN Append(@, r.data) ELSE @,
                            !.done = r.done,
                            !.ret = IF r.done THEN ret ELSE @]
          /\ IF ~r.done
             THEN /\ main' = [main EXCEPT !.result = r.result]
                  /\ UNCHANGED <<terminal, parser, parserStream>>
             ELSE IF ~ret.some
             THEN /\ main' = [main EXCEPT !.pc = "idle", !.result = <<>>,
                                          !.caller = "none"]
                  /\ UNCHANGED <<terminal, parser, parserStream>>
             ELSE /\ parser' = s.p
                  /\ terminal' = take_response(s.t)
                  /\ parserStream' = parserStream \o ret.data
                  /\ main' = IF reply # <<>>
                             THEN [main EXCEPT !.pc = "send", !.result = <<>>,
                                               !.pending = reply]
                             ELSE [main EXCEPT !.pc = "idle", !.result = <<>>,
                                               !.caller = "none"]
    /\ UNCHANGED <<overflow_checks, nops, chunkVars, auxVars, input_q, reader, writer, nread,
                   nwritten, readLog, dropLog, writeLog, writeRet, delivered>>

InitPty ==
    /\ terminal = Terminal_new(MaxCols, MaxRows)
    /\ parser = Parser_new
    /\ overflow_checks \in BOOLEAN
    /\ nops = 0
    /\ ChunkIdle
    /\ PtyIdle
    /\ AuxIdle

NextPty ==
    \/ \E data \in PtyChunks : ReaderRead(data)
    \/ ReaderTrySend
    \/ ReaderEnd
    \/ WriterRecv
    \/ WriterWriteOk
    \/ WriterWriteErr
    \/ WriterExit
    \/ \E data \in KeyChunks : KeyInput(data)
    \/ WriteReturn
    \/ UpdateBegin
    \/ ReadStep

SpecPty == InitPty /\ [][NextPty]_vars

\* the chunks the reader read that try_send did not discard, in read order
RECURSIVE Kept(_, _, _)
Kept(log, dropped, i) ==
    IF i > Len(log) THEN <<>>
    ELSE (IF i \in dropped THEN <<>> ELSE <<log[i]>>) \o Kept(log, dropped, i + 1)

\* C4: a call of Pty::write can always return at once, whatever the state of the
\* input queue and of the writer thread.
WriteNeverBlocks ==
    main.pc = "send" => send(input_q, main.pending, writer.pc = "done").status # "blocked"

\* C5: the bytes handed to the parser, then those Pty::read holds, then the
\* queued chunks, then the chunk the reader is about to push, are together the
\* chunks the reader read, in read order, less the ones discarded on overflow.
ParserStreamInOrder ==
    parserStream \o (IF main.pc = "read" THEN main.result ELSE <<>>)
        \o Flatten(output_q) \o (IF reader.pc = "send" THEN reader.buf ELSE <<>>)
      = Flatten(Kept(readLog, dropLog, 1))

StreamAfterDrop ==
    /\ dropLog # {}
    /\ main.pc = "idle"
    /\ Len(parserStream) >= 2
    /\ \E i \in 1 .. Len(parserStream) - 1 : parserStream[i] # parserStream[i + 1]

\* C6: the chunks written to the master are the first of the accepted write
\* calls, in call order; until the writer hits a write error, the ones not yet
\* written are the one it holds and the queued ones, in that order.
WritesDeliveredInOrder ==
    /\ IsPrefix(delivered, writeLog)
    /\ writer.pc \in {"recv", "write"}
         => delivered \o (IF writer.pc = "write" THEN <<writer.data>> ELSE <<>>)
                \o input_q = writeLog

TwoWritesDelivered ==
    /\ Len(delivered) >= 2
    /\ delivered[1] # delivered[2]
    /\ writer.pc = "recv"

\* C7: the output queue never exceeds its capacity, and a reader step taken
\* with a chunk in hand and the queue full leaves the queue as it was and puts
\* the reader back at its read; with a chunk in hand the reader can always step.
OutputQueueBounded ==
    /\ [](Len(output_q) <= ChannelCap)
    /\ [](reader.pc = "send" => ENABLED ReaderTrySend)
    /\ [][(reader.pc = "send" /\ Len(output_q) = ChannelCap /\ reader' # reader)
            => (output_q' = output_q /\ reader'.pc = "read"
                /\ dropLog' = dropLog \cup {Len(readLog)})]_vars

ChunkDroppedQueueFull ==
    /\ dropLog # {}
    /\ Len(output_q) = ChannelCap
    /\ reader.pc = "read"

\* C8 as stated: Pty::read returns the concatenation of the chunks that were
\* queued when it was called, or None when there were none.
ReadReturnsQueueAtCall ==
    lastRead.done => lastRead.ret = Pty_read_return(Flatten(lastRead.atCall))

\* C8: Pty::read dequeues every chunk queued at the call, then any the reader
\* pushes before it finds the queue empty, and returns the concatenation of all
\* it dequeued, in order; None exactly when that is empty; on an empty queue the
\* call returns instead of waiting.
ReadDrainsQueue ==
    /\ [](lastRead.done =>
            /\ IsPrefix(lastRead.atCall, lastRead.taken)
            /\ lastRead.ret.some <=> Flatten(lastRead.taken) # <<>>
            /\ lastRead.ret.data = Flatten(lastRead.taken))
    /\ [][(main.pc = "read" /\ output_q = <<>> /\ main' # main)
            => (lastRead'.done /\ main'.pc # "read")]_vars

ReadTookTwoChunks ==
    /\ lastRead.done
    /\ Len(lastRead.atCall) >= 2
    /\ lastRead.ret.some

\* C9: a write that returns reports an error exactly when the writer thread has
\* terminated (the receiver is dropped) at that moment.
WriteErrOnlyWhenClosed ==
    [][Len(writeRet') = Len(writeRet) + 1
         => (writeRet'[Len(writeRet')] = "err" <=> writer.pc = "done")]_vars

WriteOkThenErr ==
    /\ \E i \in 1 .. Len(writeRet) : writeRet[i] = "ok"
    /\ \E i \in 1 .. Len(writeRet) : writeRet[i] = "err"

-----------------------------------------------------------------------------
(* Cursor save / restore and the alternate screen: sessions of whole         *)
(* sequences, with the cursor remembered at every save_cursor call            *)

\* CSI s, ESC 7 / CSI u, ESC 8
SaveSeqs == {Csi(<<>>, 115), <<27, 55>>}
RestoreSeqs == {Csi(<<>>, 117), <<27, 56>>}

\* cursor moves (CUP, CUP home, LF, CR, CUF), shape (DECSCUSR 5, 3, with and
\* without the SP intermediate), visibility (DECTCEM), and the alternate screen
CursorChunks ==
    SaveSeqs \cup RestoreSeqs
    \cup {Csi2(MaxParam, MaxParam, 72), Csi(<<>>, 72), <<10>>, <<13>>, Csi(<<>>, 67)}
    \cup {Csi(<<53>>, 113), <<27, 91, 51, 32, 113>>}
    \cup {DecRst(25), DecSet(25)}
    \cup {DecSet(1049), DecRst(1049)}

\* AnsiParser::process(&mut terminal, data) for one whole sequence; hist keeps
\* the cursor each save_cursor call copied and the one current at alt entry
CursorProcess(data) ==
    /\ nops < MaxOps
    /\ ~terminal.panicked
    /\ \E s \in {process(parser, terminal, data)} :
         LET enters == "ALT_SCREEN" \notin terminal.mode /\ "ALT_SCREEN" \in s.t.mode
             exits == "ALT_SCREEN" \in terminal.mode /\ "ALT_SCREEN" \notin s.t.mode
             now == [some |-> TRUE, cur |-> terminal.cursor]
         IN /\ parser' = s.p
            /\ terminal' = s.t
            /\ hist' = [op |-> IF data \in SaveSeqs THEN "save"
                               ELSE IF data \in RestoreSeqs THEN "restore"
                               ELSE IF enters THEN "enter"
                               ELSE IF exits THEN "exit"
                               ELSE "other",
                        saved |-> IF data \in SaveSeqs \/ enters THEN now ELSE hist.saved,
                        entry |-> IF enters THEN now ELSE hist.entry]
    /\ nops' = nops + 1
    /\ UNCHANGED <<overflow_checks, chunkVars, ptyVars, grid, layout, atlas, app, pty, window, frame>>

NextCursor == \E data \in CursorChunks : CursorProcess(data)

SpecCursor == InitTerm /\ [][NextCursor]_vars

\* C11: when exit_alt_screen has just left the alternate screen, the cursor is
\* the one that was current when enter_alt_screen entered it.
AltExitRestoresEntryCursor ==
    hist.op = "exit" => terminal.cursor = hist.entry.cur

\* C12: when restore_cursor has just run after a save_cursor, the cursor equals
\* in every field the cursor at the time of the most recent save.
RestoreYieldsSavedCursor ==
    (hist.op = "restore" /\ hist.saved.some) => terminal.cursor = hist.saved.cur

\* a restore brought back a saved cursor that differs from before the restore:
\* the position, the shape and the visibility were all changed in between
RestoredAfterChanges ==
    /\ hist.op = "restore"
    /\ hist.saved.some
    /\ terminal.cursor = hist.saved.cur
    /\ terminal.cursor.row = 1
    /\ terminal.cursor.shape = "Beam"
    /\ terminal.cursor.visible = FALSE

-----------------------------------------------------------------------------
(* A Grid on its own: every public mutator, with any arguments *)

\* a cell other than the default one: 'a' in white on black
Cell_a == [character |-> 97, fg |-> Color_WHITE, bg |-> Color_BLACK, flags |-> {}]
Cells == {Cell_default, Cell_a}

\* columns and rows 0 .. MaxCols / MaxRows: in range, just past the end, and empty grids
GridCols == 0 .. MaxCols
GridRows == 0 .. MaxRows

GridDone(g, op, col, row, cell) ==
    /\ grid' = [g |-> g, op |-> op, col |-> col, row |-> row, cell |-> cell]
    /\ UNCHANGED <<termVars, chunkVars, ptyVars, hist, layout, atlas, app, pty, window, frame>>

GridResize(cols, rows) ==
    cols * rows <= MaxCells /\
    GridDone(Grid_resize(grid.g, cols, rows), "resize", cols, rows, Cell_default)

GridSet(col, row, cell) ==
    GridDone(Grid_set(grid.g, col, row, cell), "set", col, row, cell)

\* if let Some(c) = grid.get_mut(col, row) { *c = cell }
GridGetMut(col, row, cell) ==
    GridDone(Grid_write_through(Grid_get_mut(grid.g, col, row), col, row, cell),
             "get_mut", col, row, cell)

GridClearRow(row) ==
    GridDone(Grid_clear_row(grid.g, row), "clear_row", 0, row, Cell_default)

GridClear == GridDone(Grid_clear(grid.g), "clear", 0, 0, Cell_default)

GridScrollUp(amount) ==
    GridDone(Grid_scroll_up(grid.g, amount), "scroll_up", 0, amount, Cell_default)

\* the renderer's clear_dirty after a frame
GridClearDirty == GridDone(Grid_clear_dirty(grid.g), "clear_dirty", 0, 0, Cell_default)

InitGrid ==
    /\ \E cols \in GridCols, rows \in GridRows :
          /\ cols * rows <= MaxCells
          /\ grid = [g |-> Grid_new(cols, rows), op |-> "new", col |-> cols,
                     row |-> rows, cell |-> Cell_default]
    /\ terminal = Terminal_new(1, 1)
    /\ parser = Parser_new
    /\ overflow_checks = FALSE
    /\ nops = 0
    /\ ChunkIdle /\ PtyIdle /\ HistIdle /\ LayoutIdle /\ AtlasIdle /\ HostIdle

NextGrid ==
    \/ \E cols \in GridCols, rows \in GridRows : GridResize(cols, rows)
    \/ \E col \in GridCols, row \in GridRows, cell \in Cells : GridSet(col, row, cell)
    \/ \E col \in GridCols, row \in GridRows, cell \in Cells : GridGetMut(col, row, cell)
    \/ \E row \in GridRows : GridClearRow(row)
    \/ GridClear
    \/ \E amount \in GridRows : GridScrollUp(amount)
    \/ GridClearDirty

SpecGrid == InitGrid /\ [][NextGrid]_vars

\* C13: the buffer has cols x rows cells and the dirty array rows flags; get
\* gives a cell exactly for col < cols and row < rows; a set out of range
\* leaves the grid as it was; after a set in range, get at that position gives
\* the cell that was set and the row is dirty.
GridAccessorsInBounds ==
    /\ [](/\ DOMAIN grid.g.cells = 0 .. (grid.g.cols * grid.g.rows - 1)
          /\ DOMAIN grid.g.dirty_lines = 0 .. (grid.g.rows - 1)
          /\ \A col \in GridCols, row \in GridRows :
                Len(Grid_get(grid.g, col, row)) = 1
                    <=> (col < grid.g.cols /\ row < grid.g.rows)
          /\ (grid.op = "set" /\ grid.col < grid.g.cols /\ grid.row < grid.g.rows)
                => /\ Grid_get(grid.g, grid.col, grid.row) = <<grid.cell>>
                   /\ grid.g.dirty_lines[grid.row])
    /\ [][(grid'.op = "set" /\ ~(grid'.col < grid.g.cols /\ grid'.row < grid.g.rows))
            => grid'.g = grid.g]_vars

\* Cell_a was set at (0, 1) of a 2 x 2 grid whose rows had been marked clean
SetThenGetOnCleanGrid ==
    /\ grid.op = "set"
    /\ grid.g.cols = 2 /\ grid.g.rows = 2
    /\ grid.col = 0 /\ grid.row = 1
    /\ grid.cell = Cell_a
    /\ Grid_get(grid.g, 0, 1) = <<Cell_a>>
    /\ Grid_get(grid.g, 1, 0) = <<Cell_default>>
    /\ grid.g.dirty_lines[1] /\ ~grid.g.dirty_lines[0]

-----------------------------------------------------------------------------
(* f32 arithmetic of pane.rs. A finite f32 x with 0 <= x < 2 that is a        *)
(* multiple of 2^-30 is the integer x * 2^30 (every f32 in [2^-7, 2) is       *)
(* one); negative arguments are negative integers, and NaN is F32_NAN.        *)
(* Results are rounded as IEEE 754 binary32 rounds them: to 24 significant    *)
(* bits, ties to even.                                                        *)

F32_NAN == -2147483647
\* 1.0, 0.5, and the f32 nearest to 0.1, 0.9, 0.3
F32_ONE == 1073741824
F32_HALF == 536870912
F32_0_1 == 107374184
F32_0_9 == 966367616
F32_0_3 == 322122560

Pow2(k) == 2 ^ k

\* number of low bits that do not fit in a 24-bit significand
ExcessBits(n) ==
    IF n < Pow2(24) THEN 0 ELSE CHOOSE k \in 1 .. 7 : n \div Pow2(23 + k) = 1

\* q * 2^s + rem, rounded to a multiple of 2^s, ties to even q
RoundHalfEven(q, rem, s) ==
    IF s = 0 THEN q
    ELSE IF rem > Pow2(s - 1) \/ (rem = Pow2(s - 1) /\ q % 2 = 1) THEN q + 1
    ELSE q

\* the f32 nearest to the exact value n * 2^-30, 0 <= n < 2^31
f32_round(n) ==
    LET s == ExcessBits(n)
    IN RoundHalfEven(n \div Pow2(s), n % Pow2(s), s) * Pow2(s)

\* a + b in f32, for a, b >= 0
f32_add(a, b) ==
    IF a = F32_NAN \/ b = F32_NAN THEN F32_NAN ELSE f32_round(a + b)

\* a - b in f32, for a >= b >= 0
f32_sub(a, b) ==
    IF a = F32_NAN \/ b = F32_NAN THEN F32_NAN ELSE f32_round(a - b)

\* the 48-bit product of two 24-bit significands, as hi * 2^24 + lo
Mul24(x, y) ==
    LET x1 == x \div 4096
        x0 == x % 4096
        y1 == y \div 4096
        y0 == y % 4096
        cross == x1 * y0 + x0 * y1
        low == x0 * y0 + (cross % 4096) * 4096
    IN [hi |-> x1 * y1 + cross \div 4096 + low \div Pow2(24), lo |-> low % Pow2(24)]

\* a * b in f32, for a, b zero or in [2^-7, 2) with a product in [2^-7, 2)
f32_mul(a, b) ==
    IF a = F32_NAN \/ b = F32_NAN THEN F32_NAN
    ELSE IF a = 0 \/ b = 0 THEN 0
    ELSE LET sa == ExcessBits(a)
             sb == ExcessBits(b)
             p == Mul24(a \div Pow2(sa), b \div Pow2(sb))
             \* the product has 47 or 48 bits: d of them are dropped
             d == IF p.hi >= Pow2(23) THEN 24 ELSE 23
             q == p.hi * Pow2(24 - d) + p.lo \div Pow2(d)
             \* q * 2^d * 2^(sa + sb - 60) is q * 2^(d + sa + sb - 30) units
         IN RoundHalfEven(q, p.lo % Pow2(d), d) * Pow2(d + sa + sb - 30)

\* f32::clamp(self, min, max): a NaN self is returned as it is
f32_clamp(x, min, max) ==
    IF x = F32_NAN THEN F32_NAN
    ELSE IF x < min THEN min
    ELSE IF x > max THEN max
    ELSE x

-----------------------------------------------------------------------------
(* PaneLayout of pane.rs: a tree whose leaves are pane ids. Single(id) is     *)
(* <<"Single", id>>; HSplit {left, right, ratio} is <<"HSplit", left, right,  *)
(* ratio>>; VSplit {top, bottom, ratio} is <<"VSplit", top, bottom, ratio>>.  *)

Single(id) == <<"Single", id>>
HSplit(left, right, ratio) == <<"HSplit", left, right, ratio>>
VSplit(top, bottom, ratio) == <<"VSplit", top, bottom, ratio>>

\* the leaf that mem::replace leaves behind in remove_pane
Placeholder == Single(0)

Rect(x, y, w, h) == [x |-> x, y |-> y, width |-> w, height |-> h]
Rect_full == Rect(0, 0, F32_ONE, F32_ONE)

RECURSIVE split_horizontal(_, _, _)
\* [ok |-> the returned bool, self |-> the layout after the call]
split_horizontal(self, target_id, new_id) ==
    IF self[1] = "Single"
    THEN IF self[2] = target_id
         THEN [ok |-> TRUE, self |-> HSplit(Single(target_id), Single(new_id), F32_HALF)]
         ELSE [ok |-> FALSE, self |-> self]
    ELSE LET l == split_horizontal(self[2], target_id, new_id)
             r == split_horizontal(self[3], target_id, new_id)
         IN IF l.ok THEN [ok |-> TRUE, self |-> <<self[1], l.self, self[3], self[4]>>]
            ELSE [ok |-> r.ok, self |-> <<self[1], self[2], r.self, self[4]>>]

RECURSIVE split_vertical(_, _, _)
split_vertical(self, target_id, new_id) ==
    IF self[1] = "Single"
    THEN IF self[2] = target_id
         THEN [ok |-> TRUE, self |-> VSplit(Single(target_id), Single(new_id), F32_HALF)]
         ELSE [ok |-> FALSE, self |-> self]
    ELSE LET t == split_vertical(self[2], target_id, new_id)
             b == split_vertical(self[3], target_id, new_id)
         IN IF t.ok THEN [ok |-> TRUE, self |-> <<self[1], t.self, self[3], self[4]>>]
            ELSE [ok |-> b.ok, self |-> <<self[1], self[2], b.self, self[4]>>]

RECURSIVE remove_pane(_, _)
\* remove_pane handing back the removed leaf's own side instead of its sibling
remove_pane_returning_target(self, target_id) ==
    IF self[1] = "Single"
    THEN [some |-> FALSE, ret |-> Placeholder, self |-> self]
    ELSE IF self[2] = Single(target_id)
    THEN [some |-> TRUE, ret |-> self[2],
          self |-> <<self[1], Placeholder, self[3], self[4]>>]
    ELSE IF self[3] = Single(target_id)
    THEN [some |-> TRUE, ret |-> self[3],
          self |-> <<self[1], self[2], Placeholder, self[4]>>]
    ELSE LET l == remove_pane(self[2], target_id)
             r == remove_pane(self[3], target_id)
         IN IF l.some
            THEN [some |-> TRUE, ret |-> <<self[1], l.ret, self[3], self[4]>>,
                  self |-> Placeholder]
            ELSE IF r.some
            THEN [some |-> TRUE, ret |-> <<self[1], l.self, r.ret, self[4]>>,
                  self |-> Placeholder]
            ELSE [some |-> FALSE, ret |-> Placeholder,
                  self |-> <<self[1], l.self, r.self, self[4]>>]

\* remove_pane without `*left = Box::new(new_left)`: the child the recursive
\* call emptied stays in the returned layout
remove_pane_without_reattach(self, target_id) ==
    IF self[1] = "Single"
    THEN [some |-> FALSE, ret |-> Placeholder, self |-> self]
    ELSE IF self[2] = Single(target_id)
    THEN [some |-> TRUE, ret |-> self[3],
          self |-> <<self[1], self[2], Placeholder, self[4]>>]
    ELSE IF self[3] = Single(target_id)
    THEN [some |-> TRUE, ret |-> self[2],
          self |-> <<self[1], Placeholder, self[3], self[4]>>]
    ELSE LET l == remove_pane(self[2], target_id)
             r == remove_pane(self[3], target_id)
         IN IF l.some
            THEN [some |-> TRUE, ret |-> <<self[1], l.self, self[3], self[4]>>,
                  self |-> Placeholder]
            ELSE IF r.some
            THEN [some |-> TRUE, ret |-> <<self[1], l.self, r.self, self[4]>>,
                  self |-> Placeholder]
            ELSE [some |-> FALSE, ret |-> Placeholder,
                  self |-> <<self[1], l.self, r.self, self[4]>>]

\* [some |-> whether Some is returned, ret |-> the returned layout,
\*  self |-> the layout the call leaves in place]
remove_pane(self, target_id) ==
    IF self[1] = "Single"
    THEN \* only a root that is the target itself gets here: None
         [some |-> FALSE, ret |-> Placeholder, self |-> self]
    ELSE IF self[2] = Single(target_id)
    THEN [some |-> TRUE, ret |-> self[3],
          self |-> <<self[1], self[2], Placeholder, self[4]>>]
    ELSE IF self[3] = Single(target_id)
    THEN [some |-> TRUE, ret |-> self[2],
          self |-> <<self[1], Placeholder, self[3], self[4]>>]
    ELSE LET l == remove_pane(self[2], target_id)
             r == remove_pane(self[3], target_id)
         IN IF l.some
            THEN \* *left = Box::new(new_left); Some(mem::replace(self, placeholder))
                 [some |-> TRUE, ret |-> <<self[1], l.ret, self[3], self[4]>>,
                  self |-> Placeholder]
            ELSE IF r.some
            THEN [some |-> TRUE, ret |-> <<self[1], l.self, r.ret, self[4]>>,
                  self |-> Placeholder]
            ELSE [some |-> FALSE, ret |-> Placeholder,
                  self |-> <<self[1], l.self, r.self, self[4]>>]

RECURSIVE calculate_rects_inner(_, _)
\* the (id, rect) pairs pushed to result, in order
calculate_rects_inner(self, bounds) ==
    IF self[1] = "Single" THEN << <<self[2], bounds>> >>
    ELSE IF self[1] = "HSplit"
    THEN LET ratio == self[4]
             left_bounds == Rect(bounds.x, bounds.y,
                                 f32_mul(bounds.width, ratio), bounds.height)
             right_bounds == Rect(f32_add(bounds.x, f32_mul(bounds.width, ratio)), bounds.y,
                                  f32_mul(bounds.width, f32_sub(F32_ONE, ratio)),
                                  bounds.height)
         IN calculate_rects_inner(self[2], left_bounds)
                \o calculate_rects_inner(self[3], right_bounds)
    ELSE LET ratio == self[4]
             top_bounds == Rect(bounds.x, bounds.y,
                                bounds.width, f32_mul(bounds.height, ratio))
             bottom_bounds == Rect(bounds.x, f32_add(bounds.y, f32_mul(bounds.height, ratio)),
                                   bounds.width,
                                   f32_mul(bounds.height, f32_sub(F32_ONE, ratio)))
         IN calculate_rects_inner(self[2], top_bounds)
                \o calculate_rects_inner(self[3], bottom_bounds)

calculate_rects(self, bounds) == calculate_rects_inner(self, bounds)

RECURSIVE collect_pane_ids(_)
collect_pane_ids(self) ==
    IF self[1] = "Single" THEN <<self[2]>>
    ELSE collect_pane_ids(self[2]) \o collect_pane_ids(self[3])

all_pane_ids(self) == collect_pane_ids(self)

\* ids.iter().position(|&id| id == current): 0 when there is none, else 1-based
position(ids, current) ==
    IF \E i \in 1 .. Len(ids) : ids[i] = current
    THEN CHOOSE i \in 1 .. Len(ids) :
             ids[i] = current /\ \A j \in 1 .. i - 1 : ids[j] # current
    ELSE 0

\* Option<PaneId>: [some |-> FALSE, id |-> 0] is None
PaneNone == [some |-> FALSE, id |-> 0]
PaneSome(id) == [some |-> TRUE, id |-> id]

\* next_pane without the wrap: the last leaf has no successor
next_pane_without_wrap(self, current) ==
    LET ids == all_pane_ids(self)
        current_idx == position(ids, current)
    IN IF Len(ids) <= 1 THEN PaneNone
       ELSE IF current_idx = 0 \/ current_idx = Len(ids) THEN PaneNone
       ELSE PaneSome(ids[current_idx + 1])

next_pane(self, current) ==
    LET ids == all_pane_ids(self)
        current_idx == position(ids, current)
    IN IF Len(ids) <= 1 THEN PaneNone
       ELSE IF current_idx = 0 THEN PaneNone
       ELSE PaneSome(ids[(current_idx % Len(ids)) + 1])

prev_pane(self, current) ==
    LET ids == all_pane_ids(self)
        current_idx == position(ids, current)
    IN IF Len(ids) <= 1 THEN PaneNone
       ELSE IF current_idx = 0 THEN PaneNone
       ELSE PaneSome(ids[IF current_idx = 1 THEN Len(ids) ELSE current_idx - 1])

pane_count(self) == Len(all_pane_ids(self))

RECURSIVE update_ratio(_, _, _)
\* the layout after update_ratio(path, new_ratio)
update_ratio(self, path, new_ratio) ==
    IF path = <<>>
    THEN IF self[1] \in {"HSplit", "VSplit"}
         THEN <<self[1], self[2], self[3], f32_clamp(new_ratio, F32_0_1, F32_0_9)>>
         ELSE self
    ELSE IF self[1] = "HSplit"
    THEN (CASE path[1] = "Left" ->
                 <<self[1], update_ratio(self[2], Tail(path), new_ratio), self[3], self[4]>>
            [] path[1] = "Right" ->
                 <<self[1], self[2], update_ratio(self[3], Tail(path), new_ratio), self[4]>>
            [] OTHER -> self)
    ELSE IF self[1] = "VSplit"
    THEN (CASE path[1] = "Top" ->
                 <<self[1], update_ratio(self[2], Tail(path), new_ratio), self[3], self[4]>>
            [] path[1] = "Bottom" ->
                 <<self[1], self[2], update_ratio(self[3], Tail(path), new_ratio), self[4]>>
            [] OTHER -> self)
    ELSE self

BorderDirection == {"Left", "Right", "Top", "Bottom"}

\* paths of at most n border directions
RECURSIVE PathsUpTo(_)
PathsUpTo(n) ==
    IF n = 0 THEN {<<>>}
    ELSE PathsUpTo(n - 1)
           \cup {<<d>> \o p : d \in BorderDirection, p \in {q \in PathsUpTo(n - 1) : Len(q) = n - 1}}

\* every split of a layout of MaxPaneId panes is at most MaxPaneId - 2 steps below the root
Paths == PathsUpTo(MaxPaneId - 2)

\* new_ratio of handle_cursor_moved, x / width: NaN (0.0 / 0.0), 0.0, 0.3, 1.5
RatioInputs == {F32_NAN, 0, F32_0_3, F32_ONE + F32_HALF}

LayoutDone(tree, panes, focused_pane, next_id, op) ==
    /\ layout' = [tree |-> tree, panes |-> panes, focused_pane |-> focused_pane,
                  next_id |-> next_id, op |-> op]
    /\ UNCHANGED <<termVars, chunkVars, ptyVars, hist, grid, atlas, app, pty, window, frame>>

\* App::split_horizontal: Pane::new draws the id, the focused pane is split
App_split_horizontal ==
    /\ layout.next_id <= MaxPaneId
    /\ LET new_id == layout.next_id
       IN LayoutDone(split_horizontal(layout.tree, layout.focused_pane, new_id).self,
                     layout.panes \cup {new_id}, layout.focused_pane, new_id + 1, "split_h")

App_split_vertical ==
    /\ layout.next_id <= MaxPaneId
    /\ LET new_id == layout.next_id
       IN LayoutDone(split_vertical(layout.tree, layout.focused_pane, new_id).self,
                     layout.panes \cup {new_id}, layout.focused_pane, new_id + 1, "split_v")

\* App::close_pane: with one pane left the window closes instead
App_close_pane ==
    /\ Cardinality(layout.panes) > 1
    /\ LET next_focus == next_pane(layout.tree, layout.focused_pane)
           removed == remove_pane(layout.tree, layout.focused_pane)
           panes == layout.panes \ {layout.focused_pane}
       IN \E any \in panes :
            LayoutDone(IF removed.some THEN removed.ret ELSE removed.self, panes,
                       IF next_focus.some THEN next_focus.id ELSE any,
                       layout.next_id, "close")

App_focus_next_pane ==
    LET next == next_pane(layout.tree, layout.focused_pane)
    IN /\ next.some
       /\ LayoutDone(layout.tree, layout.panes, next.id, layout.next_id, "focus_next")

App_focus_prev_pane ==
    LET prev == prev_pane(layout.tree, layout.focused_pane)
    IN /\ prev.some
       /\ LayoutDone(layout.tree, layout.panes, prev.id, layout.next_id, "focus_prev")

\* handle_cursor_moved while a border is dragged
App_drag_border(path, new_ratio) ==
    LayoutDone(update_ratio(layout.tree, path, new_ratio), layout.panes,
               layout.focused_pane, layout.next_id, "drag")

InitLayout ==
    /\ layout = [tree |-> Single(1), panes |-> {1}, focused_pane |-> 1, next_id |-> 2,
                 op |-> "none"]
    /\ terminal = Terminal_new(1, 1)
    /\ parser = Parser_new
    /\ overflow_checks = FALSE
    /\ nops = 0
    /\ ChunkIdle /\ PtyIdle /\ HistIdle /\ GridIdle /\ AtlasIdle /\ HostIdle

NextLayout ==
    \/ App_split_horizontal
    \/ App_split_vertical
    \/ App_close_pane
    \/ App_focus_next_pane
    \/ App_focus_prev_pane
    \/ \E path \in Paths, new_ratio \in RatioInputs : App_drag_border(path, new_ratio)

SpecLayout == InitLayout /\ [][NextLayout]_vars

\* exact (unrounded) geometry of the rectangles calculate_rects returns
RectFinite(r) ==
    r.x # F32_NAN /\ r.y # F32_NAN /\ r.width # F32_NAN /\ r.height # F32_NAN
RectRight(r) == r.x + r.width
RectBottom(r) == r.y + r.height
RectsOverlap(a, b) ==
    /\ a.x < RectRight(b) /\ b.x < RectRight(a)
    /\ a.y < RectBottom(b) /\ b.y < RectBottom(a)
RectWithin(a, b) ==
    /\ b.x <= a.x /\ RectRight(a) <= RectRight(b)
    /\ b.y <= a.y /\ RectBottom(a) <= RectBottom(b)
\* every cell of the grid drawn by all the rectangles' edges inside bounds
\* lies in one of the rectangles
RectsCover(rects, bounds) ==
    LET rs == {rects[i][2] : i \in 1 .. Len(rects)}
        xs == {bounds.x, RectRight(bounds)} \cup {r.x : r \in rs} \cup {RectRight(r) : r \in rs}
        ys == {bounds.y, RectBottom(bounds)} \cup {r.y : r \in rs} \cup {RectBottom(r) : r \in rs}
    IN \A x1, x2 \in xs : \A y1, y2 \in ys :
         (/\ x1 < x2 /\ y1 < y2
          /\ RectWithin(Rect(x1, y1, x2 - x1, y2 - y1), bounds)
          /\ ~\E x \in xs : x1 < x /\ x < x2
          /\ ~\E y \in ys : y1 < y /\ y < y2)
           => \E r \in rs : RectWithin(Rect(x1, y1, x2 - x1, y2 - y1), r)

\* C14: in every layout reached by splits, removals and ratio updates, the
\* rectangles calculate_rects returns for the full window are pairwise
\* non-overlapping, their union is exactly the window, and their pane ids are
\* all_pane_ids, in the same order.
RectsTileBounds ==
    LET rects == calculate_rects(layout.tree, Rect_full)
    IN /\ [i \in 1 .. Len(rects) |-> rects[i][1]] = all_pane_ids(layout.tree)
       /\ \A i \in 1 .. Len(rects) : RectFinite(rects[i][2])
       /\ \A i \in 1 .. Len(rects) : RectWithin(rects[i][2], Rect_full)
       /\ \A i, j \in 1 .. Len(rects) : i # j => ~RectsOverlap(rects[i][2], rects[j][2])
       /\ RectsCover(rects, Rect_full)

\* the ids of a sequence, as a set
Range(seq) == {seq[i] : i \in 1 .. Len(seq)}
NoDuplicates(seq) == \A i, j \in 1 .. Len(seq) : seq[i] = seq[j] => i = j

RECURSIVE Collapse(_, _)
\* the tree in which the split whose child is the leaf `id` is replaced by
\* that leaf's sibling, every other node as it was
Collapse(tree, id) ==
    IF tree[1] = "Single" THEN tree
    ELSE IF tree[2] = Single(id) THEN tree[3]
    ELSE IF tree[3] = Single(id) THEN tree[2]
    ELSE <<tree[1], Collapse(tree[2], id), Collapse(tree[3], id), tree[4]>>

\* C15: through any sequence of splits with fresh ids and removals of
\* existing panes, every pane id is in exactly one leaf and the placeholder
\* id 0 is in none; a removal takes the removed id out of the layout and puts
\* the sibling subtree in the place of the enclosing split, leaving every
\* other node and ratio as it was.
LeavesAreThePanes ==
    /\ [](/\ NoDuplicates(all_pane_ids(layout.tree))
          /\ Range(all_pane_ids(layout.tree)) = layout.panes
          /\ 0 \notin Range(all_pane_ids(layout.tree)))
    /\ [][(layout' # layout /\ layout'.op = "close")
            => /\ layout.focused_pane \notin Range(all_pane_ids(layout'.tree))
               /\ layout'.tree = Collapse(layout.tree, layout.focused_pane)]_vars

\* a pane below a nested split was removed: two panes are left, the first
\* pane is gone and the remaining split still has the ratio a drag gave it
RemovedBelowNestedSplit ==
    /\ layout.op = "close"
    /\ layout.next_id > MaxPaneId
    /\ Len(all_pane_ids(layout.tree)) = 2
    /\ 1 \notin layout.panes
    /\ layout.tree[4] = F32_0_3

\* C16: splitting any pane t of a reachable layout L with a fresh id n,
\* horizontally or vertically, and then removing n gives back L: the same
\* structure, ids and ratios.
SplitThenRemoveIsIdentity ==
    \A t \in layout.panes :
        LET n == layout.next_id
            h == split_horizontal(layout.tree, t, n)
            v == split_vertical(layout.tree, t, n)
        IN /\ h.ok /\ h.self # layout.tree
           /\ remove_pane(h.self, n).some /\ remove_pane(h.self, n).ret = layout.tree
           /\ v.ok /\ v.self # layout.tree
           /\ remove_pane(v.self, n).some /\ remove_pane(v.self, n).ret = layout.tree

\* the round trip through a pane below a split whose ratio a drag has set
SplitRemoveBelowDraggedSplit ==
    /\ layout.tree[1] = "VSplit"
    /\ layout.tree[4] = F32_0_9
    /\ layout.tree[3] = Single(2)
    /\ LET h == split_horizontal(layout.tree, 2, layout.next_id)
       IN /\ h.self = VSplit(layout.tree[2],
                             HSplit(Single(2), Single(layout.next_id), F32_HALF), F32_0_9)
          /\ remove_pane(h.self, layout.next_id).ret = layout.tree

\* the child a direction names at a node, <<>> when it names none
ChildAt(tree, d) ==
    IF tree[1] = "HSplit" /\ d = "Left" THEN tree[2]
    ELSE IF tree[1] = "HSplit" /\ d = "Right" THEN tree[3]
    ELSE IF tree[1] = "VSplit" /\ d = "Top" THEN tree[2]
    ELSE IF tree[1] = "VSplit" /\ d = "Bottom" THEN tree[3]
    ELSE <<>>

RECURSIVE NodeAt(_, _)
\* the node a path leads to, <<>> when it leads to none
NodeAt(tree, path) ==
    IF tree = <<>> \/ path = <<>> THEN tree
    ELSE NodeAt(ChildAt(tree, path[1]), Tail(path))

LeadsToSplit(tree, path) ==
    NodeAt(tree, path) # <<>> /\ NodeAt(tree, path)[1] \in {"HSplit", "VSplit"}

RECURSIVE WithRatioAt(_, _, _)
\* the tree with the ratio of the split at path set to r, nothing else touched
WithRatioAt(tree, path, r) ==
    IF path = <<>> THEN <<tree[1], tree[2], tree[3], r>>
    ELSE IF path[1] \in {"Left", "Top"}
    THEN <<tree[1], WithRatioAt(tree[2], Tail(path), r), tree[3], tree[4]>>
    ELSE <<tree[1], tree[2], WithRatioAt(tree[3], Tail(path), r), tree[4]>>

RECURSIVE Ratios(_)
Ratios(tree) ==
    IF tree[1] = "Single" THEN {} ELSE {tree[4]} \cup Ratios(tree[2]) \cup Ratios(tree[3])

InRatioRange(r) == r # F32_NAN /\ F32_0_1 <= r /\ r <= F32_0_9

\* C17: update_ratio(path, r) sets the ratio of the split the path leads to
\* to a value of [0.1, 0.9] (r itself when it lies there) and changes no other
\* node, does nothing when the path leads to no split, and is idempotent;
\* every ratio of every reachable layout lies in [0.1, 0.9].
RatiosClamped ==
    /\ \A r \in Ratios(layout.tree) : InRatioRange(r)
    /\ \A path \in PathsUpTo(MaxPaneId - 1), r \in RatioInputs :
         LET updated == update_ratio(layout.tree, path, r)
         IN /\ update_ratio(updated, path, r) = updated
            /\ ~LeadsToSplit(layout.tree, path) => updated = layout.tree
            /\ LeadsToSplit(layout.tree, path) =>
                 \E c \in {F32_0_1, F32_0_3, F32_0_9} :
                    /\ InRatioRange(r) => c = r
                    /\ updated = WithRatioAt(layout.tree, path, c)

\* C18: in a layout of at least two panes next_pane and prev_pane step
\* through the leaves in order, wrapping at the ends, and
\* prev_pane(next_pane(id)) = id; after split_horizontal(P1, P2) on the
\* single pane P1, pane_count is 2 and next_pane(P1) is P2.
FocusCyclesThroughLeaves ==
    LET ids == all_pane_ids(layout.tree)
        n == Len(ids)
    IN /\ n >= 2 =>
            \A i \in 1 .. n :
               /\ next_pane(layout.tree, ids[i]) = PaneSome(ids[IF i = n THEN 1 ELSE i + 1])
               /\ prev_pane(layout.tree, ids[i]) = PaneSome(ids[IF i = 1 THEN n ELSE i - 1])
               /\ prev_pane(layout.tree, next_pane(layout.tree, ids[i]).id) = PaneSome(ids[i])
       /\ \A P1 \in layout.panes :
            LET split == split_horizontal(Single(P1), P1, layout.next_id).self
            IN /\ pane_count(split) = 2
               /\ next_pane(split, P1) = PaneSome(layout.next_id)
       /\ layout.op = "focus_next" => position(ids, layout.focused_pane) > 0

\* focus_next has wrapped from the last of three leaves to the first
FocusWrappedToFirstLeaf ==
    /\ layout.op = "focus_next"
    /\ Len(all_pane_ids(layout.tree)) = 3
    /\ layout.focused_pane = all_pane_ids(layout.tree)[1]
    /\ prev_pane(layout.tree, layout.focused_pane) = PaneSome(all_pane_ids(layout.tree)[3])

-----------------------------------------------------------------------------
(* GlyphAtlas of renderer.rs. glyphs maps the cached characters (code points  *)
(* 1 .. Len) to their GlyphInfo, kept as the pixel rectangle x, y, w, h that  *)
(* uv_offset, uv_size and size are computed from; a character that is not     *)
(* cached maps to NoGlyph. All quantities stay far below 2^32.                *)

NoGlyph == [cached |-> FALSE, x |-> 0, y |-> 0, w |-> 0, h |-> 0]
GlyphInfo(x, y, w, h) == [cached |-> TRUE, x |-> x, y |-> y, w |-> w, h |-> h]

AtlasChars == 1 .. 3
GlyphSizes == 0 .. MaxGlyph
AtlasSizes == 1 .. MaxAtlas

glyphs_get(a, c) == IF c \in DOMAIN a.glyphs THEN a.glyphs[c] ELSE NoGlyph
glyphs_insert(a, c, info) ==
    [k \in 1 .. (IF c > Len(a.glyphs) THEN c ELSE Len(a.glyphs)) |->
        IF k = c THEN info ELSE glyphs_get(a, k)]

\* get_or_insert(c, ..) where rasterize returns a metrics.width x
\* metrics.height bitmap
get_or_insert(a, c, metrics_width, metrics_height) ==
    IF glyphs_get(a, c).cached
    THEN [a EXCEPT !.last = [c |-> c, some |-> TRUE, placed |-> FALSE]]
    ELSE IF metrics_width = 0 \/ metrics_height = 0
    THEN [a EXCEPT !.glyphs = glyphs_insert(a, c, GlyphInfo(0, 0, 0, 0)),
                   !.last = [c |-> c, some |-> TRUE, placed |-> FALSE]]
    ELSE LET w == metrics_width
             h == metrics_height
             wraps == a.cursor_x + w > a.width
             cursor_x == IF wraps THEN 0 ELSE a.cursor_x
             cursor_y == IF wraps THEN a.cursor_y + a.row_height ELSE a.cursor_y
             row_height == IF wraps THEN 0 ELSE a.row_height
             shelved == [a EXCEPT !.cursor_x = cursor_x, !.cursor_y = cursor_y,
                                  !.row_height = row_height]
             \* the largest dst_idx of the copy loop
             last_idx == (cursor_y + h - 1) * a.width + cursor_x + w - 1
         IN IF cursor_y + h > a.height
            THEN [shelved EXCEPT !.last = [c |-> c, some |-> FALSE, placed |-> FALSE]]
            ELSE IF last_idx >= a.width * a.height
            THEN \* self.pixels[dst_idx]: index out of bounds
                 [shelved EXCEPT !.panicked = TRUE,
                                 !.last = [c |-> c, some |-> FALSE, placed |-> FALSE]]
            ELSE [shelved EXCEPT
                    !.glyphs = glyphs_insert(a, c, GlyphInfo(cursor_x, cursor_y, w, h)),
                    !.cursor_x = cursor_x + w + 1,
                    !.row_height = IF row_height > h + 1 THEN row_height ELSE h + 1,
                    !.dirty = TRUE,
                    !.last = [c |-> c, some |-> TRUE, placed |-> TRUE]]

GetOrInsert(c, metrics_width, metrics_height) ==
    /\ ~atlas.panicked
    /\ atlas' = get_or_insert(atlas, c, metrics_width, metrics_height)
    /\ UNCHANGED <<termVars, chunkVars, ptyVars, hist, grid, layout, app, pty, window, frame>>

InitAtlas ==
    /\ \E w \in AtlasSizes, h \in AtlasSizes : atlas = GlyphAtlas_new(w, h)
    /\ terminal = Terminal_new(1, 1)
    /\ parser = Parser_new
    /\ overflow_checks = FALSE
    /\ nops = 0
    /\ ChunkIdle /\ PtyIdle /\ HistIdle /\ GridIdle /\ LayoutIdle /\ HostIdle

NextAtlas ==
    \E c \in AtlasChars, metrics_width \in GlyphSizes, metrics_height \in GlyphSizes :
        GetOrInsert(c, metrics_width, metrics_height)

SpecAtlas == InitAtlas /\ [][NextAtlas]_vars

\* the cached glyphs that have pixels
PlacedGlyphs == {c \in DOMAIN atlas.glyphs : atlas.glyphs[c].cached /\ atlas.glyphs[c].w > 0}
GlyphsOverlap(g1, g2) ==
    /\ g1.x < g2.x + g2.w /\ g2.x < g1.x + g1.w
    /\ g1.y < g2.y + g2.h /\ g2.y < g1.y + g1.h
PackingState(a) == <<a.cursor_x, a.cursor_y, a.row_height>>

\* C19: after any sequence of get_or_insert calls, failed ones included, the
\* rectangles of the cached non-empty glyphs are pairwise disjoint and lie
\* within the atlas (x + w <= W, y + h <= H); a request for a cached
\* character returns its record and leaves the packing state alone; no
\* cached record is removed or changed.
CachedGlyphsDisjointInBounds ==
    /\ [](\A c \in PlacedGlyphs :
             /\ atlas.glyphs[c].x + atlas.glyphs[c].w <= atlas.width
             /\ atlas.glyphs[c].y + atlas.glyphs[c].h <= atlas.height
             /\ \A d \in PlacedGlyphs \ {c} : ~GlyphsOverlap(atlas.glyphs[c], atlas.glyphs[d]))
    /\ [][/\ \A c \in AtlasChars :
                glyphs_get(atlas, c).cached => glyphs_get(atlas', c) = glyphs_get(atlas, c)
          /\ glyphs_get(atlas, atlas'.last.c).cached =>
                atlas'.last.some /\ PackingState(atlas') = PackingState(atlas)]_vars

\* C20: after every successful insertion of a glyph with pixels, the x at
\* which it was written plus its width is at most W, and
\* cursor_y + row_height <= H.
ShelfWithinAtlas ==
    atlas.last.placed =>
        /\ atlas.glyphs[atlas.last.c].x + atlas.glyphs[atlas.last.c].w <= atlas.width
        /\ atlas.cursor_y + atlas.row_height <= atlas.height

-----------------------------------------------------------------------------
(* Scrolling, line feeds, wrapping, printing and resizing on a terminal of    *)
(* up to MaxScreenRows rows. hist records the call just made: the bytes       *)
(* handed to process, or the size handed to resize.                           *)

ScreenSizes == (1 .. MaxCols) \X (1 .. MaxScreenRows)

\* CSI row ; 1 H for every row
CupChunks == {Csi2(row, 1, 72) : row \in 1 .. MaxScreenRows}
\* DECSTBM: regions at the top, in the middle, at the bottom, and the default
StbmChunks ==
    {Csi2(1, 1, 114), Csi2(1, 2, 114), Csi2(2, 2, 114), Csi2(2, MaxScreenRows, 114),
     Csi(<<>>, 114)}
\* CSI n S and CSI n T
SuChunks == {Csi(Digits(n), 83) : n \in 1 .. MaxParam}
SdChunks == {Csi(Digits(n), 84) : n \in 1 .. MaxParam}
\* LF, VT, FF, ESC D
LfChunks == {<<10>>, <<11>>, <<12>>, <<27, 68>>}
PrintChunks == {<<97>>, <<98>>}

ScreenInit ==
    /\ \E size \in ScreenSizes : terminal = Terminal_new(size[1], size[2])
    /\ parser = Parser_new
    /\ overflow_checks \in BOOLEAN
    /\ nops = 0
    /\ hist = [op |-> "none", data |-> <<>>]
    /\ ChunkIdle /\ PtyIdle /\ GridIdle /\ LayoutIdle /\ AtlasIdle /\ HostIdle

\* AnsiParser::process(&mut terminal, data)
ScreenProcess(data) ==
    /\ nops < MaxOps
    /\ ~terminal.panicked
    /\ \E s \in {process(parser, terminal, data)} :
          /\ parser' = s.p
          /\ terminal' = s.t
    /\ hist' = [op |-> "process", data |-> data]
    /\ nops' = nops + 1
    /\ UNCHANGED <<overflow_checks, chunkVars, ptyVars, grid, layout, atlas, app, pty, window, frame>>

\* Terminal::resize(cols, rows)
ScreenResize(cols, rows) ==
    /\ nops < MaxOps
    /\ ~terminal.panicked
    /\ terminal' = Terminal_resize(terminal, cols, rows)
    /\ hist' = [op |-> "resize", data |-> <<cols, rows>>]
    /\ nops' = nops + 1
    /\ UNCHANGED <<parser, overflow_checks, chunkVars, ptyVars, grid, layout, atlas, app, pty, window, frame>>

ScrollChunks ==
    PrintChunks \cup LfChunks \cup CupChunks \cup StbmChunks \cup SuChunks \cup SdChunks

NextScroll == \E data \in ScrollChunks : ScreenProcess(data)

SpecScroll == ScreenInit /\ [][NextScroll]_vars

\* the call made by the step is process(data)
Processed(data) == hist'.op = "process" /\ hist'.data = data /\ nops' = nops + 1

RegionOrdered(t) == t.scroll_top <= t.scroll_bottom /\ t.scroll_bottom < active_grid(t).rows
RowCells(g, row) == [col \in 0 .. g.cols - 1 |-> g.cells[row * g.cols + col]]
BlankRow(g) == [col \in 0 .. g.cols - 1 |-> Cell_default]

\* C23: for every n, also one larger than the scroll region or the grid,
\* scroll_up(n) and scroll_down(n) complete without a panic, and when n is
\* at least the height of the scroll region every row of the region is blank
\* afterwards.
ScrollBeyondRegionBlanks ==
    [][\A n \in 1 .. MaxParam :
          (RegionOrdered(terminal)
             /\ (Processed(Csi(Digits(n), 83)) \/ Processed(Csi(Digits(n), 84))))
          => /\ ~terminal'.panicked
             /\ n >= terminal.scroll_bottom - terminal.scroll_top + 1
                  => \A row \in terminal.scroll_top .. terminal.scroll_bottom :
                        RowCells(active_grid(terminal'), row) = BlankRow(active_grid(terminal'))]_vars

\* the rows of grid g2 are those of g1 with the region [top, bot] moved up by
\* n (down by -n), the vacated rows of the region blank, all other rows kept
RegionShifted(g1, g2, top, bot, n) ==
    /\ g2.cols = g1.cols /\ g2.rows = g1.rows
    /\ \A row \in 0 .. g1.rows - 1 :
          RowCells(g2, row) =
             IF row < top \/ row > bot THEN RowCells(g1, row)
             ELSE IF row + n >= top /\ row + n <= bot THEN RowCells(g1, row + n)
             ELSE BlankRow(g1)

\* C24: for every scroll region and every n >= 1, scroll_up(n) and
\* scroll_down(n) leave the rows above scroll_top and below scroll_bottom and
\* the cursor as they were, move the surviving rows of the region by exactly
\* n and blank exactly the vacated rows of the region.
ScrollTouchesOnlyRegion ==
    [][\A n \in 1 .. MaxParam :
          /\ (RegionOrdered(terminal) /\ Processed(Csi(Digits(n), 83)))
               => /\ terminal'.cursor = terminal.cursor
                  /\ RegionShifted(active_grid(terminal), active_grid(terminal'),
                                   terminal.scroll_top, terminal.scroll_bottom, n)
          /\ (RegionOrdered(terminal) /\ Processed(Csi(Digits(n), 84)))
               => /\ terminal'.cursor = terminal.cursor
                  /\ RegionShifted(active_grid(terminal), active_grid(terminal'),
                                   terminal.scroll_top, terminal.scroll_bottom, -n)]_vars

\* C25: a line feed (LF, VT, FF, ESC D) never changes cursor.col; when
\* cursor.row is neither scroll_bottom nor the last row, also below the
\* scroll region, it adds one to cursor.row and changes no cell; when
\* cursor.row is scroll_bottom it scrolls the region up by one line and
\* leaves cursor.row as it was.
LinefeedAdvancesOrScrolls ==
    [][\A lf \in LfChunks :
          Processed(lf) =>
             /\ terminal'.cursor.col = terminal.cursor.col
             /\ (/\ terminal.cursor.row # terminal.scroll_bottom
                 /\ terminal.cursor.row < active_grid(terminal).rows - 1)
                  => /\ terminal'.cursor.row = terminal.cursor.row + 1
                     /\ active_grid(terminal').cells = active_grid(terminal).cells
             /\ (RegionOrdered(terminal) /\ terminal.cursor.row = terminal.scroll_bottom)
                  => /\ terminal'.cursor.row = terminal.cursor.row
                     /\ RegionShifted(active_grid(terminal), active_grid(terminal'),
                                      terminal.scroll_top, terminal.scroll_bottom, 1)]_vars

-----------------------------------------------------------------------------
(* Printing and line wrap: characters, cursor positioning, a scroll region,
   DECAWM and SGR fed to a screen of up to MaxCols x MaxScreenRows *)

SgrChunks == {Csi(<<51, 49, 59, 52, 50, 59, 49>>, 109), Csi(<<48>>, 109)}
AwmChunks == {DecRst(7), DecSet(7)}
WrapChunks ==
    PrintChunks \cup CupChunks \cup {Csi2(1, 1, 114)} \cup AwmChunks \cup SgrChunks

NextWrap == \E data \in WrapChunks : ScreenProcess(data)

SpecWrap == ScreenInit /\ [][NextWrap]_vars

\* the cell a print of c writes: the character in the current style
StyledCell(t, c) ==
    [character |-> c, fg |-> t.current_style.fg,
     bg |-> t.current_style.bg, flags |-> t.current_style.flags]

\* g2 is g1 with exactly the cell at (col, row) replaced by cell
WrittenAt(g1, g2, col, row, cell) ==
    /\ g2.cols = g1.cols
    /\ g2.rows = g1.rows
    /\ row * g1.cols + col \in DOMAIN g1.cells
    /\ g2.cells = [g1.cells EXCEPT ![row * g1.cols + col] = cell]

\* a print of c in state t wraps: the character does not fit and AutoWrap is set
Wraps(t, c) ==
    /\ t.cursor.col + width(c) > active_grid(t).cols
    /\ "AUTO_WRAP" \in t.mode

\* C26: when a character is printed with cursor.col + width > cols and
\* AutoWrap set, the screen it is written to is the one carriage_return
\* followed by linefeed produces from the same state, so the result is that
\* of carriage_return, linefeed and the write, for every cursor row and
\* scroll region.
WrapIsCarriageReturnLinefeed ==
    [][\A c \in {97, 98} :
          (Processed(<<c>>) /\ Wraps(terminal, c))
             => LET crlf == linefeed(carriage_return(terminal))
                IN /\ terminal'.cursor = [crlf.cursor EXCEPT !.col = 1]
                   /\ WrittenAt(active_grid(crlf), active_grid(terminal'),
                                0, crlf.cursor.row, StyledCell(terminal, c))]_vars

\* C27: with the cursor past the last column of a line filled with width-1
\* characters, one more width-1 character is written, with AutoWrap on, at
\* column 0 of the next line (the region scrolled by one line first when the
\* line was scroll_bottom) and, with AutoWrap off, at column cols - 1 of the
\* same line with every other cell unchanged.
FullLineThenOneMore ==
    [][\A c \in {97, 98} :
          LET g == active_grid(terminal)
              row == terminal.cursor.row
              cell == StyledCell(terminal, c)
          IN (Processed(<<c>>) /\ terminal.cursor.col = g.cols)
                => /\ ("AUTO_WRAP" \in terminal.mode /\ row = terminal.scroll_bottom)
                       => /\ terminal'.cursor.row = row
                          /\ active_grid(terminal').cells[row * g.cols] = cell
                          /\ RegionShifted(g,
                                [active_grid(terminal') EXCEPT
                                    !.cells[row * g.cols] = Cell_default],
                                terminal.scroll_top, terminal.scroll_bottom, 1)
                   /\ (/\ "AUTO_WRAP" \in terminal.mode
                       /\ row # terminal.scroll_bottom
                       /\ row < g.rows - 1)
                       => /\ terminal'.cursor.row = row + 1
                          /\ WrittenAt(g, active_grid(terminal'), 0, row + 1, cell)
                   /\ "AUTO_WRAP" \notin terminal.mode
                       => /\ terminal'.cursor.row = row
                          /\ WrittenAt(g, active_grid(terminal'), g.cols - 1, row, cell)]_vars

\* C28: printing a width-1 character while cursor.col + 1 <= cols replaces
\* exactly the cell under the cursor by the character in the current style,
\* leaves every other cell of both screens unchanged and adds one to
\* cursor.col; the current style is the one the SGR sequences so far set
\* (red foreground, green background and bold after SGR 31;42;1, the
\* defaults after SGR 0); an SGR sequence changes no cell.
PrintWritesCellUnderCursor ==
    [][/\ \A c \in {97, 98} :
            (Processed(<<c>>) /\ terminal.cursor.col + 1 <= active_grid(terminal).cols)
               => /\ WrittenAt(active_grid(terminal), active_grid(terminal'),
                               terminal.cursor.col, terminal.cursor.row,
                               [character |-> c, fg |-> terminal.current_style.fg,
                                bg |-> terminal.current_style.bg,
                                flags |-> terminal.current_style.flags])
                  /\ terminal'.cursor =
                        [terminal.cursor EXCEPT !.col = terminal.cursor.col + 1]
                  /\ terminal'.current_style = terminal.current_style
                  /\ "ALT_SCREEN" \notin terminal.mode
                        => terminal'.alt_grid.cells = terminal.alt_grid.cells
       /\ \A sgr \in SgrChunks :
            Processed(sgr)
               => /\ terminal'.grid.cells = terminal.grid.cells
                  /\ terminal'.alt_grid.cells = terminal.alt_grid.cells
                  /\ terminal'.cursor = terminal.cursor
       /\ Processed(Csi(<<51, 49, 59, 52, 50, 59, 49>>, 109))
            => terminal'.current_style =
                  [terminal.current_style EXCEPT !.fg = Color_RED,
                                                 !.bg = Color_GREEN,
                                                 !.flags = @ \cup {"BOLD"}]
       /\ Processed(Csi(<<48>>, 109))
            => terminal'.current_style =
                  [fg |-> Color_EMERALD, bg |-> Color_BLACK, flags |-> {}]]_vars

\* a red bold 'a' on green is on the screen next to a 'b' printed after SGR 0
StyledCellNextToPlainCell ==
    /\ hist.op = "process"
    /\ hist.data = <<98>>
    /\ terminal.grid.cols = 2
    /\ terminal.grid.cells[0] =
          [character |-> 97, fg |-> Color_RED, bg |-> Color_GREEN, flags |-> {"BOLD"}]
    /\ terminal.grid.cells[1] = [Cell_default EXCEPT !.character = 98]

-----------------------------------------------------------------------------
(* Resizing: text, line feeds, scroll regions and the alternate screen fed
   to a screen that is resized to every size of ScreenSizes. The sizes are
   at least 1 x 1: Renderer::calculate_terminal_size returns
   (cols.max(1), rows.max(1)). *)

\* Grid::clear_dirty on the grid being shown, once its rows have been drawn
ScreenClearDirty ==
    /\ nops < MaxOps
    /\ ~terminal.panicked
    /\ \E row \in DOMAIN active_grid(terminal).dirty_lines :
          active_grid(terminal).dirty_lines[row]
    /\ terminal' = active_grid_mut(terminal, Grid_clear_dirty(active_grid(terminal)))
    /\ hist' = [op |-> "clear_dirty", data |-> <<>>]
    /\ nops' = nops + 1
    /\ UNCHANGED <<parser, overflow_checks, chunkVars, ptyVars, grid, layout, atlas, app, pty, window, frame>>

ResizeChunks ==
    {<<97>>, <<10>>, Csi2(2, 2, 114), Csi2(2, MaxScreenRows, 114),
     DecSet(1049), DecRst(1049)}

NextResize ==
    \/ \E data \in ResizeChunks : ScreenProcess(data)
    \/ \E size \in ScreenSizes : ScreenResize(size[1], size[2])
    \/ ScreenClearDirty

SpecResize == ScreenInit /\ [][NextResize]_vars

Resized(cols, rows) ==
    hist'.op = "resize" /\ hist'.data = <<cols, rows>> /\ nops' = nops + 1

\* C29: after Terminal::resize(cols, rows), from any state, a DECSTBM region
\* included, the scroll region is the whole screen: scroll_top = 0 and
\* scroll_bottom = rows - 1.
ResizeResetsScrollRegion ==
    [][\A size \in ScreenSizes :
          Resized(size[1], size[2])
             => /\ terminal'.scroll_top = 0
                /\ terminal'.scroll_bottom = size[2] - 1]_vars

\* g2 is g1 resized to cols x rows: the cells of the overlap keep their
\* content at their (col, row), the others are default, every row is dirty
ResizedFrom(g1, g2, cols, rows) ==
    /\ g2.cols = cols
    /\ g2.rows = rows
    /\ DOMAIN g2.cells = 0 .. cols * rows - 1
    /\ DOMAIN g2.dirty_lines = 0 .. rows - 1
    /\ \A col \in 0 .. cols - 1, row \in 0 .. rows - 1 :
          g2.cells[row * cols + col] =
             IF col < g1.cols /\ row < g1.rows
             THEN g1.cells[row * g1.cols + col]
             ELSE Cell_default
    /\ \A row \in 0 .. rows - 1 : g2.dirty_lines[row]

\* C30: after Terminal::resize(cols, rows) the primary and the alternate
\* grid both have cols x rows cells, every cell of the overlap with the old
\* grid keeps its content, every other cell is default, every row is dirty,
\* and the cursor is inside the new grid.
ResizePreservesOverlap ==
    [][\A size \in ScreenSizes :
          Resized(size[1], size[2])
             => /\ ResizedFrom(terminal.grid, terminal'.grid, size[1], size[2])
                /\ ResizedFrom(terminal.alt_grid, terminal'.alt_grid, size[1], size[2])
                /\ terminal'.cursor.col < size[1]
                /\ terminal'.cursor.row < size[2]]_vars

\* a one-column, two-row screen with 'a' on the first row of the primary
\* grid and on the second row of the alternate grid was widened to two columns
WidenedWithTextOnBothGrids ==
    /\ hist.op = "resize"
    /\ hist.data = <<2, 2>>
    /\ terminal.grid.cells[0].character = 97
    /\ terminal.grid.cells[1] = Cell_default
    /\ terminal.alt_grid.cells[2].character = 97
    /\ terminal.alt_grid.cells[3] = Cell_default

-----------------------------------------------------------------------------
(* main.rs: App, the winit ApplicationHandler. app.windows maps a window id
   to the number of panes of its WindowState, 0 for an id with no window;
   app.redraw is the set of windows with a redraw requested; app.exiting is
   TRUE once event_loop.exit() has been called, after which the event loop
   delivers nothing more; app.last is the latest callback. *)

MaxWindows == 2

WindowIds == 1 .. MaxWindows

OpenWindows == {w \in WindowIds : app.windows[w] > 0}

WindowCommands == {"None", "NewWindow", "ClosePane", "Split", "Focus"}

\* the WindowEvents window_event tells apart; "Other" stands for the arms
\* that change no window or flag (Resized, ModifiersChanged, Ime, the mouse)
\* and for the events of the wildcard arm, Destroyed among them
WindowEvents == {"CloseRequested", "KeyboardInput", "RedrawRequested", "Other"}

App_new ==
    [windows |-> [w \in WindowIds |-> 0], redraw |-> {}, should_exit |-> FALSE,
     exiting |-> FALSE, resumed |-> FALSE, last |-> <<"new">>]

\* App::create_window: a window with one pane under a fresh id, or an error
create_window(a, w, ok) ==
    IF ok THEN [a EXCEPT !.windows[w] = 1] ELSE a

close_window(a, window_id) ==
    LET a1 == [a EXCEPT !.windows[window_id] = 0, !.redraw = @ \ {window_id}]
    IN IF \A w \in WindowIds : a1.windows[w] = 0
       THEN [a1 EXCEPT !.should_exit = TRUE]
       ELSE a1

\* the match on command of window_event; fresh is the id and ok the outcome
\* of a create_window, split_ok that of a split
run_command(a, window_id, command, fresh, ok, split_ok) ==
    CASE command = "NewWindow" -> create_window(a, fresh, ok)
      [] command = "ClosePane" ->
            IF a.windows[window_id] > 0
            THEN IF a.windows[window_id] <= 1
                 THEN close_window(a, window_id)
                 ELSE [a EXCEPT !.windows[window_id] = @ - 1]
            ELSE a
      [] command = "Split" ->
            IF a.windows[window_id] > 0 /\ split_ok
            THEN [a EXCEPT !.windows[window_id] = @ + 1]
            ELSE a
      [] OTHER -> a

\* ApplicationHandler::window_event; render_ok is the result of state.render()
window_event(a, window_id, event, command, fresh, ok, split_ok, render_ok) ==
    IF a.windows[window_id] > 0 /\ event = "CloseRequested"
    THEN close_window(a, window_id)
    ELSE
    LET a1 == IF a.windows[window_id] > 0 /\ event = "RedrawRequested"
              THEN [a EXCEPT !.should_exit = @ \/ ~render_ok,
                             !.redraw = @ \cup {window_id}]
              ELSE a
        cmd == IF a.windows[window_id] > 0 /\ event = "KeyboardInput"
               THEN command ELSE "None"
        a2 == run_command(a1, window_id, cmd, fresh, ok, split_ok)
    IN IF a2.should_exit THEN [a2 EXCEPT !.exiting = TRUE] ELSE a2

\* ApplicationHandler::resumed, delivered once when the loop starts
Resumed(ok) ==
    /\ ~app.exiting
    /\ ~app.resumed
    /\ app' = [(IF OpenWindows = {}
                THEN IF ok THEN create_window(app, 1, TRUE)
                     ELSE [app EXCEPT !.exiting = TRUE]
                ELSE app)
               EXCEPT !.resumed = TRUE, !.last = <<"resumed">>]
    /\ UNCHANGED <<termVars, chunkVars, ptyVars, hist, grid, layout, atlas, pty, window, frame>>

\* A window event reaches the handler: any event for an open window (a
\* redraw only once requested, or as the first frame of the window), and,
\* where the platform sends one, an event for a window that is gone.
WindowEvent(window_id, event, command) ==
    /\ ~app.exiting
    /\ app.resumed
    /\ app.windows[window_id] = 0 => event = "Other"
    /\ command = "NewWindow" => \E w \in WindowIds : app.windows[w] = 0
    /\ command = "Split" => app.windows[window_id] < MaxPaneId
    /\ \E fresh \in {w \in WindowIds : app.windows[w] = 0} \cup {0},
          ok \in BOOLEAN, split_ok \in BOOLEAN, render_ok \in BOOLEAN :
          /\ (fresh = 0) = (\A w \in WindowIds : app.windows[w] > 0)
          /\ app' = [window_event(app, window_id, event, command, fresh, ok,
                                  split_ok, render_ok)
                     EXCEPT !.last = <<"window_event", window_id, event>>]
    /\ UNCHANGED <<termVars, chunkVars, ptyVars, hist, grid, layout, atlas, pty, window, frame>>

\* ApplicationHandler::about_to_wait: request_redraw on every window
AboutToWait ==
    /\ ~app.exiting
    /\ app.resumed
    /\ app' = [app EXCEPT !.redraw = OpenWindows, !.last = <<"about_to_wait">>]
    /\ UNCHANGED <<termVars, chunkVars, ptyVars, hist, grid, layout, atlas, pty, window, frame>>

InitApp ==
    /\ app = App_new
    /\ pty = <<>>
    /\ window = <<>>
    /\ frame = <<>>
    /\ terminal = Terminal_new(1, 1)
    /\ parser = Parser_new
    /\ overflow_checks = FALSE
    /\ nops = 0
    /\ ChunkIdle /\ PtyIdle /\ HistIdle /\ GridIdle /\ LayoutIdle /\ AtlasIdle

NextApp ==
    \/ \E ok \in BOOLEAN : Resumed(ok)
    \/ \E window_id \in WindowIds, event \in WindowEvents, command \in WindowCommands :
          WindowEvent(window_id, event, command)
    \/ AboutToWait

\* The loop runs with ControlFlow::Poll: about_to_wait keeps being called,
\* and a requested redraw is delivered. Input events are up to the user.
SpecApp ==
    /\ InitApp
    /\ [][NextApp]_vars
    /\ WF_vars(AboutToWait)
    /\ \A w \in WindowIds : WF_vars(WindowEvent(w, "RedrawRequested", "None"))

\* C21: whenever the last open window is closed, by CloseRequested or by a
\* ClosePane command on the last pane of the last window, event_loop.exit()
\* is called in the handling of that event; so whenever no window is open
\* after start-up the loop eventually exits.
LastWindowCloseExits ==
    /\ [][(OpenWindows # {} /\ (\A w \in WindowIds : app'.windows[w] = 0))
             => app'.exiting]_vars
    /\ ((app.resumed /\ OpenWindows = {}) ~> app.exiting)

-----------------------------------------------------------------------------
(* pty.rs: the size a Pty holds. pty.size is the PtySize field, pty.master
   the window size the PTY master has, pty.spawned the (cols, rows) given
   to spawn, pty.last the latest call with its arguments and whether it
   returned Ok. *)

PtySize(cols, rows) ==
    [rows |-> rows, cols |-> cols, pixel_width |-> 0, pixel_height |-> 0]

\* Pty::spawn(cols, rows, shell) when it returns Ok
Pty_spawn(cols, rows) ==
    [size |-> PtySize(cols, rows), master |-> PtySize(cols, rows),
     spawned |-> <<cols, rows>>,
     last |-> [op |-> "spawn", cols |-> cols, rows |-> rows, ok |-> TRUE]]

\* Pty::resize(cols, rows) with the field assigned only once the master
\* has accepted the size
Pty_resize_on_success(p, cols, rows, ok) ==
    [p EXCEPT !.size = IF ok THEN PtySize(cols, rows) ELSE @,
              !.master = IF ok THEN PtySize(cols, rows) ELSE @,
              !.last = [op |-> "resize", cols |-> cols, rows |-> rows, ok |-> ok]]

\* Pty::resize(cols, rows); ok is whether master.resize succeeded
Pty_resize(p, cols, rows, ok) ==
    LET p1 == [p EXCEPT !.size.cols = cols, !.size.rows = rows]
    IN [p1 EXCEPT !.master = IF ok THEN p1.size ELSE @,
                  !.last = [op |-> "resize", cols |-> cols, rows |-> rows, ok |-> ok]]

Pty_size(p) == <<p.size.cols, p.size.rows>>

PtyResize(cols, rows) ==
    /\ \E ok \in BOOLEAN : pty' = Pty_resize(pty, cols, rows, ok)
    /\ UNCHANGED <<termVars, chunkVars, ptyVars, hist, grid, layout, atlas, app, window, frame>>

InitPtySize ==
    /\ \E size \in ScreenSizes : pty = Pty_spawn(size[1], size[2])
    /\ app = <<>>
    /\ window = <<>>
    /\ frame = <<>>
    /\ terminal = Terminal_new(1, 1)
    /\ parser = Parser_new
    /\ overflow_checks = FALSE
    /\ nops = 0
    /\ ChunkIdle /\ PtyIdle /\ HistIdle /\ GridIdle /\ LayoutIdle /\ AtlasIdle

NextPtySize == \E size \in ScreenSizes : PtyResize(size[1], size[2])

SpecPtySize == InitPtySize /\ [][NextPtySize]_vars

\* C22: Pty::size returns the (cols, rows) passed to spawn until resize is
\* called, and afterwards the (cols, rows) of the most recent resize call,
\* whether or not that call returned Ok.
SizeIsLastSet ==
    /\ [](pty.last.op = "spawn" => Pty_size(pty) = pty.spawned)
    /\ [][\A size \in ScreenSizes :
             (pty'.last.op = "resize" /\ pty'.last.cols = size[1]
                 /\ pty'.last.rows = size[2])
                => Pty_size(pty') = size]_vars

\* a resize to 2 x 3 that the master refused, after a spawn with 1 x 2 and
\* a resize to 1 x 1
RefusedResizeHeld ==
    /\ pty.spawned = <<1, 2>>
    /\ pty.last = [op |-> "resize", cols |-> 2, rows |-> 3, ok |-> FALSE]
    /\ pty.master = PtySize(1, 1)
    /\ Pty_size(pty) = <<2, 3>>

-----------------------------------------------------------------------------
(* Grid::scroll_up on a Grid of its own *)

\* C31: Grid::scroll_up(n) with n < rows moves the content of each row r in
\* n .. rows - 1 to row r - n, makes the last n rows default cells and marks
\* every row dirty; with n >= rows every cell is default and every row dirty,
\* as after clear(); with n = 0 no cell changes. The dimensions stay.
GridScrollUpShiftsRows ==
    [][grid'.op = "scroll_up"
         => LET g1 == grid.g
                g2 == grid'.g
                n == grid'.row
            IN /\ g2.cols = g1.cols /\ g2.rows = g1.rows
               /\ DOMAIN g2.cells = DOMAIN g1.cells
               /\ DOMAIN g2.dirty_lines = DOMAIN g1.dirty_lines
               /\ \A row \in DOMAIN g2.dirty_lines : g2.dirty_lines[row]
               /\ n < g1.rows
                    => /\ \A row \in n .. g1.rows - 1 :
                             RowCells(g2, row - n) = RowCells(g1, row)
                       /\ \A row \in g1.rows - n .. g1.rows - 1 :
                             RowCells(g2, row) = BlankRow(g1)
               /\ n >= g1.rows
                    => /\ \A i \in DOMAIN g2.cells : g2.cells[i] = Cell_default
                       /\ g2 = Grid_clear(g1)
               /\ n = 0 => g2.cells = g1.cells]_vars

\* the second row of a 2 x 2 grid, holding Cell_a, was scrolled to the first
ScrolledRowMovedUp ==
    /\ grid.op = "scroll_up"
    /\ grid.row = 1
    /\ grid.g.cols = 2 /\ grid.g.rows = 2
    /\ grid.g.cells[0] = Cell_default /\ grid.g.cells[1] = Cell_a
    /\ grid.g.cells[2] = Cell_default /\ grid.g.cells[3] = Cell_default

-----------------------------------------------------------------------------
(* Absolute cursor positioning: CUP (H and f) and CHA with parameters up to
   the largest a parameter can hold, on screens of up to MaxCols x
   MaxScreenRows, between prints and line feeds *)

PosParams == (1 .. MaxParam) \cup {65535}
CupPosChunks ==
    {Csi2(r, c, final) : r \in PosParams, c \in PosParams, final \in {72, 102}}
ChaChunks == {Csi(Digits(n), 71) : n \in PosParams}
PosChunks == CupPosChunks \cup ChaChunks \cup {<<97>>, <<10>>}

NextPos == \E data \in PosChunks : ScreenProcess(data)

SpecPos == ScreenInit /\ [][NextPos]_vars

\* C32: CSI r ; c H (or f) leaves the cursor at column min(c - 1, cols - 1)
\* and row min(r - 1, rows - 1); CSI n G leaves cursor.col = min(n - 1,
\* cols - 1) and the row as it was; for every parameter up to 65535.
AbsolutePositionClamped ==
    [][LET cols == active_grid(terminal).cols
           rows == active_grid(terminal).rows
       IN /\ \A r \in PosParams, c \in PosParams, final \in {72, 102} :
                Processed(Csi2(r, c, final))
                   => /\ terminal'.cursor.col = Min(c - 1, cols - 1)
                      /\ terminal'.cursor.row = Min(r - 1, rows - 1)
          /\ \A n \in PosParams :
                Processed(Csi(Digits(n), 71))
                   => /\ terminal'.cursor.col = Min(n - 1, cols - 1)
                      /\ terminal'.cursor.row = terminal.cursor.row]_vars

-----------------------------------------------------------------------------
(* Erasing: EL and ED with every selector, between prints in a non-default
   style, cursor positioning and switches to and from the alternate screen *)

ElChunks == {Csi(Digits(n), 75) : n \in 0 .. 2}
EdChunks == {Csi(Digits(n), 74) : n \in 0 .. 3}
EraseChunks ==
    {<<97>>, Csi(<<51, 49, 59, 52, 50>>, 109), DecSet(1049), DecRst(1049)}
       \cup CupChunks \cup ElChunks \cup EdChunks

NextErase == \E data \in EraseChunks : ScreenProcess(data)

SpecErase == ScreenInit /\ [][NextErase]_vars

\* the cells EL (final 75) and ED (final 74) with selector n erase when the
\* cursor is at (cc, cr)
Erased(final, n, cc, cr, col, row) ==
    LET to_end == row = cr /\ col >= cc
        to_start == row = cr /\ col <= cc
    IN IF final = 75
       THEN CASE n = 0 -> to_end
              [] n = 1 -> to_start
              [] OTHER -> row = cr
       ELSE CASE n = 0 -> to_end \/ row > cr
              [] n = 1 -> to_start \/ row < cr
              [] OTHER -> TRUE

\* C33: EL 0/1/2 and ED 0/1/2/3 make exactly their cells of the active grid
\* default cells (to end: from the cursor cell on; to start: up to and
\* including the cursor cell; all: the line or the display), leave every
\* other cell, the cursor, the current style and the inactive grid as they
\* were, and never fail, wherever the cursor is.
EraseReplacesExactlyItsCells ==
    [][\A final \in {74, 75}, n \in 0 .. 3 :
          (Processed(Csi(Digits(n), final)) /\ (final = 74 \/ n <= 2))
             => LET g1 == active_grid(terminal)
                    g2 == active_grid(terminal')
                IN /\ ~terminal'.panicked
                   /\ g2.cols = g1.cols /\ g2.rows = g1.rows
                   /\ DOMAIN g2.cells = DOMAIN g1.cells
                   /\ \A col \in 0 .. g1.cols - 1, row \in 0 .. g1.rows - 1 :
                         g2.cells[row * g1.cols + col] =
                            IF Erased(final, n, terminal.cursor.col,
                                      terminal.cursor.row, col, row)
                            THEN Cell_default
                            ELSE g1.cells[row * g1.cols + col]
                   /\ terminal'.cursor = terminal.cursor
                   /\ terminal'.current_style = terminal.current_style
                   /\ terminal'.mode = terminal.mode
                   /\ "ALT_SCREEN" \in terminal.mode => terminal'.grid = terminal.grid
                   /\ "ALT_SCREEN" \notin terminal.mode
                         => terminal'.alt_grid = terminal.alt_grid]_vars

\* ED 0 with the cursor after a red 'a' on green kept that cell and left
\* default cells from the cursor on, the current style still red on green
ErasedToEndAfterStyledCell ==
    /\ hist.op = "process"
    /\ hist.data = Csi(Digits(0), 74)
    /\ terminal.grid.cols = 2 /\ terminal.grid.rows = 2
    /\ terminal.cursor.col = 1 /\ terminal.cursor.row = 0
    /\ terminal.current_style.fg = Color_RED
    /\ terminal.current_style.bg = Color_GREEN
    /\ terminal.grid.cells[0] =
          [character |-> 97, fg |-> Color_RED, bg |-> Color_GREEN, flags |-> {}]
    /\ \A i \in 1 .. 3 : terminal.grid.cells[i] = Cell_default

-----------------------------------------------------------------------------
(* Full reset: ESC c after text, styles, the alternate screen, a scroll
   region, a saved cursor, mode changes and a title *)

ResetChunks ==
    {<<97>>, Csi(<<51, 49>>, 109), DecSet(1049), DecRst(1049), Csi2(2, 2, 114),
     Csi2(2, 1, 72), <<27, 55>>, DecRst(7), DecRst(25), <<27, 93, 48, 59, 120, 7>>,
     <<27, 99>>}

NextReset == \E data \in ResetChunks : ScreenProcess(data)

SpecReset == ScreenInit /\ [][NextReset]_vars

BlankGrid(g, cols, rows) ==
    /\ g.cols = cols /\ g.rows = rows
    /\ DOMAIN g.cells = 0 .. cols * rows - 1
    /\ \A i \in DOMAIN g.cells : g.cells[i] = Cell_default

\* C34: after ESC c, whatever the state before, the Terminal has the cols and
\* rows it had and is otherwise as a new Terminal: both grids blank, the
\* cursor at (0, 0), visible and default, no cursor saved, AutoWrap the only
\* mode, the scroll region 0 .. rows - 1, the default style, the default tab
\* stops and the default title.
FullResetIsNewTerminal ==
    [][Processed(<<27, 99>>)
         => LET cols == active_grid(terminal).cols
                rows == active_grid(terminal).rows
            IN /\ BlankGrid(terminal'.grid, cols, rows)
               /\ BlankGrid(terminal'.alt_grid, cols, rows)
               /\ terminal'.cursor = Cursor_default
               /\ terminal'.cursor.col = 0 /\ terminal'.cursor.row = 0
               /\ terminal'.cursor.visible
               /\ terminal'.saved_cursor = Cursor_default
               /\ terminal'.mode = {"AUTO_WRAP"}
               /\ terminal'.scroll_top = 0
               /\ terminal'.scroll_bottom = rows - 1
               /\ terminal'.current_style =
                     [fg |-> Color_EMERALD, bg |-> Color_BLACK, flags |-> {}]
               /\ terminal'.tabs = tab_stops(cols)
               /\ terminal'.title = Title_default
               /\ terminal' = Terminal_new(cols, rows)]_vars

\* ESC c was the fifth sequence processed on a 2 x 3 screen
ResetAfterFourSequences ==
    /\ hist.op = "process"
    /\ hist.data = <<27, 99>>
    /\ nops = 5
    /\ terminal = Terminal_new(2, 3)

-----------------------------------------------------------------------------
(* WindowState of main.rs: one window's layout, its panes, the focused pane,  *)
(* the mouse position and the border being dragged. Coordinates are           *)
(* normalised to the window (0.0 .. 1.0) and are f32 values as above.         *)

\* BORDER_THRESHOLD: the f32 nearest to 0.01
BORDER_THRESHOLD == 10737418

\* Option<BorderHit>: the direction of the border, its position, and the path
\* from the root to its split
BorderNone == [some |-> FALSE, vertical |-> FALSE, at |-> 0, path |-> <<>>]
BorderHit(vertical, at) == [some |-> TRUE, vertical |-> vertical, at |-> at, path |-> <<>>]

\* BorderHit::push_path: layout_path.insert(0, dir)
push_path(hit, dir) == [hit EXCEPT !.path = <<dir>> \o @]

\* (a - b).abs() for a, b in [0, 2): a difference below 2^-6 of two such
\* values is a multiple of 2^-30 and is exact
f32_abs_diff(a, b) == IF a >= b THEN a - b ELSE b - a

RECURSIVE pane_at(_, _, _, _)
pane_at(self, x, y, bounds) ==
    IF self[1] = "Single"
    THEN IF /\ x >= bounds.x /\ x < f32_add(bounds.x, bounds.width)
            /\ y >= bounds.y /\ y < f32_add(bounds.y, bounds.height)
         THEN PaneSome(self[2])
         ELSE PaneNone
    ELSE IF self[1] = "HSplit"
    THEN LET ratio == self[4]
             split_x == f32_add(bounds.x, f32_mul(bounds.width, ratio))
         IN IF x < split_x
            THEN pane_at(self[2], x, y,
                         Rect(bounds.x, bounds.y, f32_mul(bounds.width, ratio), bounds.height))
            ELSE pane_at(self[3], x, y,
                         Rect(split_x, bounds.y,
                              f32_mul(bounds.width, f32_sub(F32_ONE, ratio)), bounds.height))
    ELSE LET ratio == self[4]
             split_y == f32_add(bounds.y, f32_mul(bounds.height, ratio))
         IN IF y < split_y
            THEN pane_at(self[2], x, y,
                         Rect(bounds.x, bounds.y, bounds.width, f32_mul(bounds.height, ratio)))
            ELSE pane_at(self[3], x, y,
                         Rect(bounds.x, split_y, bounds.width,
                              f32_mul(bounds.height, f32_sub(F32_ONE, ratio))))

RECURSIVE border_at(_, _, _, _, _)
border_at(self, x, y, bounds, threshold) ==
    IF self[1] = "Single" THEN BorderNone
    ELSE IF self[1] = "HSplit"
    THEN LET ratio == self[4]
             split_x == f32_add(bounds.x, f32_mul(bounds.width, ratio))
             left == border_at(self[2], x, y,
                               Rect(bounds.x, bounds.y, f32_mul(bounds.width, ratio),
                                    bounds.height),
                               threshold)
             right == border_at(self[3], x, y,
                                Rect(split_x, bounds.y,
                                     f32_mul(bounds.width, f32_sub(F32_ONE, ratio)),
                                     bounds.height),
                                threshold)
         IN IF /\ f32_abs_diff(x, split_x) < threshold
               /\ y >= bounds.y /\ y < f32_add(bounds.y, bounds.height)
            THEN BorderHit(TRUE, split_x)
            ELSE IF left.some THEN push_path(left, "Left")
            ELSE IF right.some THEN push_path(right, "Right")
            ELSE BorderNone
    ELSE LET ratio == self[4]
             split_y == f32_add(bounds.y, f32_mul(bounds.height, ratio))
             top == border_at(self[2], x, y,
                              Rect(bounds.x, bounds.y, bounds.width,
                                   f32_mul(bounds.height, ratio)),
                              threshold)
             bottom == border_at(self[3], x, y,
                                 Rect(bounds.x, split_y, bounds.width,
                                      f32_mul(bounds.height, f32_sub(F32_ONE, ratio))),
                                 threshold)
         IN IF /\ f32_abs_diff(y, split_y) < threshold
               /\ x >= bounds.x /\ x < f32_add(bounds.x, bounds.width)
            THEN BorderHit(FALSE, split_y)
            ELSE IF top.some THEN push_path(top, "Top")
            ELSE IF bottom.some THEN push_path(bottom, "Bottom")
            ELSE BorderNone

\* cell_width and cell_height of the renderer, in pixels
CellSize == [width |-> 8, height |-> 16]

\* inner sizes of the window in pixels; a Resized event may also carry a zero
WindowSizes == {<<64, 64>>, <<128, 128>>}
ResizeEvents == WindowSizes \cup {<<0, 64>>}

\* cursor positions in pixels on an axis of the given length
CursorPixels(pixels) == {pixels \div 4, pixels \div 2}

\* (x as f32) / (width as f32): exact, the width being a power of two
normalize(px, pixels) == px * (F32_ONE \div pixels)

\* (viewport / cell).floor() as u16, then max(1), for the viewport
\* extent * pixels of a rectangle side: pixels / cell is a power of two, so
\* the product and the quotient are exact
viewport_cells(extent, pixels, cell) ==
    Max(1, extent \div (F32_ONE \div (pixels \div cell)))

\* the same for the viewport extent / 2.0 * pixels of the split handlers
half_viewport_cells(extent, pixels, cell) ==
    Max(1, extent \div (2 * (F32_ONE \div (pixels \div cell))))

\* Renderer::calculate_terminal_size_for_viewport for the rectangle sides w, h
\* of a window of the given screen size
calculate_terminal_size_for_viewport(w, h, screen) ==
    <<viewport_cells(w, screen[1], CellSize.width),
      viewport_cells(h, screen[2], CellSize.height)>>

\* a Pane: the dimensions of its Terminal and of its Pty
Pane_new(cols, rows) == [terminal |-> <<cols, rows>>, pty |-> <<cols, rows>>]

\* Pane::resize: terminal.resize, then pty.resize, whose size field is set
\* before the master is asked
Pane_resize(pane, cols, rows) == [terminal |-> <<cols, rows>>, pty |-> <<cols, rows>>]

\* rects.iter().find(|(id, _)| *id == focused).map(|(_, r)| *r).unwrap_or(Rect::full())
find_rect(rects, id) ==
    IF \E i \in 1 .. Len(rects) : rects[i][1] = id
    THEN rects[CHOOSE i \in 1 .. Len(rects) :
                   rects[i][1] = id /\ \A j \in 1 .. i - 1 : rects[j][1] # id][2]
    ELSE Rect_full

\* the loop of resize_all_panes and of handle_resize: every pane the layout
\* has a rectangle for is resized to the cells of that rectangle
resize_all_panes(tree, panes, screen) ==
    LET rects == calculate_rects(tree, Rect_full)
        Last(id) == CHOOSE i \in 1 .. Len(rects) :
                        rects[i][1] = id /\ \A j \in i + 1 .. Len(rects) : rects[j][1] # id
    IN [id \in DOMAIN panes |->
            IF \E i \in 1 .. Len(rects) : rects[i][1] = id
            THEN LET rect == rects[Last(id)][2]
                     size == calculate_terminal_size_for_viewport(rect.width, rect.height,
                                                                  screen)
                 IN Pane_resize(panes[id], size[1], size[2])
            ELSE panes[id]]

\* the path from the root to the leaf of a pane, <<"none">> when there is none
RECURSIVE LeafPath(_, _)
LeafPath(tree, id) ==
    IF tree[1] = "Single" THEN (IF tree[2] = id THEN <<>> ELSE <<"none">>)
    ELSE LET l == LeafPath(tree[2], id)
             r == LeafPath(tree[3], id)
             first == IF tree[1] = "HSplit" THEN "Left" ELSE "Top"
             second == IF tree[1] = "HSplit" THEN "Right" ELSE "Bottom"
         IN IF l = <<>> \/ l[Len(l)] # "none" THEN <<first>> \o l
            ELSE IF r = <<>> \/ r[Len(r)] # "none" THEN <<second>> \o r
            ELSE <<"none">>

\* where the split at path `at` is once the leaf at path `leaf` is removed and
\* its sibling has taken the place of their parent: the parent itself is gone
SplitAfterRemove(at, leaf) ==
    LET parent == SubSeq(leaf, 1, Len(leaf) - 1)
    IN IF ~at.alive \/ leaf = <<>> THEN at
       ELSE IF at.path = parent THEN [alive |-> FALSE, path |-> at.path]
       ELSE IF IsPrefix(parent, at.path)
       THEN [alive |-> TRUE,
             path |-> parent \o SubSeq(at.path, Len(parent) + 2, Len(at.path))]
       ELSE at

NoSplit == [alive |-> FALSE, path |-> <<>>]

WindowDone(w) ==
    /\ window' = w
    /\ UNCHANGED <<termVars, chunkVars, ptyVars, hist, grid, layout, atlas, app, pty, frame>>

\* create_window: one pane of the size of the whole window, nothing dragged.
\* next_id is the global counter of PaneId::new; closed is set once close_pane
\* has asked for the window to be closed; last tells whether the last handler
\* was close_pane, and
\* pressed follows the split whose border the last press hit.
WindowState_new(screen) ==
    [layout |-> Single(1),
     panes |-> (1 :> Pane_new(viewport_cells(F32_ONE, screen[1], CellSize.width),
                              viewport_cells(F32_ONE, screen[2], CellSize.height))),
     focused_pane |-> 1,
     next_id |-> 2,
     mouse_pos |-> <<0, 0>>,
     dragging_border |-> BorderNone,
     screen |-> screen,
     closed |-> FALSE,
     last |-> "create_window",
     pressed |-> NoSplit]

\* WindowState::split_horizontal: Pane::new fails (ok = FALSE) before anything
\* is changed and before PaneId::new is called
Window_split_horizontal(ok) ==
    /\ ~window.closed
    /\ window.next_id <= MaxPaneId
    /\ LET rects == calculate_rects(window.layout, Rect_full)
           focused_rect == find_rect(rects, window.focused_pane)
           size == <<half_viewport_cells(focused_rect.width, window.screen[1],
                                         CellSize.width),
                     viewport_cells(focused_rect.height, window.screen[2], CellSize.height)>>
           new_id == window.next_id
           resized == IF window.focused_pane \in DOMAIN window.panes
                      THEN [window.panes EXCEPT
                                ![window.focused_pane] = Pane_resize(@, size[1], size[2])]
                      ELSE window.panes
       IN IF ~ok THEN WindowDone([window EXCEPT !.last = "other"])
          ELSE WindowDone([window EXCEPT
                   !.layout = split_horizontal(@, window.focused_pane, new_id).self,
                   !.panes = (new_id :> Pane_new(size[1], size[2])) @@ resized,
                   !.next_id = new_id + 1,
                   !.last = "other"])

Window_split_vertical(ok) ==
    /\ ~window.closed
    /\ window.next_id <= MaxPaneId
    /\ LET rects == calculate_rects(window.layout, Rect_full)
           focused_rect == find_rect(rects, window.focused_pane)
           size == <<viewport_cells(focused_rect.width, window.screen[1], CellSize.width),
                     half_viewport_cells(focused_rect.height, window.screen[2],
                                         CellSize.height)>>
           new_id == window.next_id
           resized == IF window.focused_pane \in DOMAIN window.panes
                      THEN [window.panes EXCEPT
                                ![window.focused_pane] = Pane_resize(@, size[1], size[2])]
                      ELSE window.panes
       IN IF ~ok THEN WindowDone([window EXCEPT !.last = "other"])
          ELSE WindowDone([window EXCEPT
                   !.layout = split_vertical(@, window.focused_pane, new_id).self,
                   !.panes = (new_id :> Pane_new(size[1], size[2])) @@ resized,
                   !.next_id = new_id + 1,
                   !.last = "other"])

\* close_pane without panes.remove(&self.focused_pane)
Window_close_pane_keeping_pane ==
    /\ ~window.closed
    /\ IF Cardinality(DOMAIN window.panes) <= 1
       THEN WindowDone([window EXCEPT !.closed = TRUE, !.last = "close_pane"])
       ELSE LET next_focus == next_pane(window.layout, window.focused_pane)
                removed == remove_pane(window.layout, window.focused_pane)
            IN WindowDone([window EXCEPT
                   !.layout = IF removed.some THEN removed.ret ELSE removed.self,
                   !.focused_pane = IF next_focus.some THEN next_focus.id ELSE @,
                   !.last = "close_pane",
                   !.pressed = SplitAfterRemove(@, LeafPath(window.layout,
                                                            window.focused_pane))])

\* WindowState::close_pane: true (close the window) when one pane is left
Window_close_pane ==
    /\ ~window.closed
    /\ IF Cardinality(DOMAIN window.panes) <= 1
       THEN WindowDone([window EXCEPT !.closed = TRUE, !.last = "close_pane"])
       ELSE LET next_focus == next_pane(window.layout, window.focused_pane)
                removed == remove_pane(window.layout, window.focused_pane)
                panes == [id \in DOMAIN window.panes \ {window.focused_pane} |->
                              window.panes[id]]
            IN \E any \in (IF DOMAIN panes = {} THEN {window.focused_pane}
                           ELSE DOMAIN panes) :
                 WindowDone([window EXCEPT
                     !.layout = IF removed.some THEN removed.ret ELSE removed.self,
                     !.panes = panes,
                     !.focused_pane = IF next_focus.some THEN next_focus.id ELSE any,
                     !.last = "close_pane",
                     !.pressed = SplitAfterRemove(@, LeafPath(window.layout,
                                                              window.focused_pane))])

Window_focus_next_pane ==
    /\ ~window.closed
    /\ LET next == next_pane(window.layout, window.focused_pane)
       IN WindowDone([window EXCEPT
              !.focused_pane = IF next.some THEN next.id ELSE @,
              !.last = "other"])

Window_focus_prev_pane ==
    /\ ~window.closed
    /\ LET prev == prev_pane(window.layout, window.focused_pane)
       IN WindowDone([window EXCEPT
              !.focused_pane = IF prev.some THEN prev.id ELSE @,
              !.last = "other"])

\* WindowState::handle_resize: a zero width or height is ignored
handle_resize(size) ==
    /\ ~window.closed
    /\ IF size[1] = 0 \/ size[2] = 0
       THEN WindowDone([window EXCEPT !.last = "other"])
       ELSE WindowDone([window EXCEPT
                !.screen = size,
                !.panes = resize_all_panes(window.layout, @, size),
                !.last = "other"])

\* WindowState::handle_cursor_moved for the pixel position (x, y): a dragged
\* border follows the cursor
handle_cursor_moved(x, y) ==
    /\ ~window.closed
    /\ LET norm_x == normalize(x, window.screen[1])
           norm_y == normalize(y, window.screen[2])
           border == window.dragging_border
           new_ratio == IF border.vertical THEN norm_x ELSE norm_y
           moved == update_ratio(window.layout, border.path, new_ratio)
       IN IF border.some
          THEN WindowDone([window EXCEPT
                   !.mouse_pos = <<norm_x, norm_y>>,
                   !.layout = moved,
                   !.panes = resize_all_panes(moved, @, window.screen),
                   !.last = "other"])
          ELSE WindowDone([window EXCEPT
                   !.mouse_pos = <<norm_x, norm_y>>,
                   !.last = "other"])

\* WindowState::handle_mouse_input: the left button starts a drag on a border,
\* focuses the pane under the cursor otherwise, and ends the drag when released
handle_mouse_input(button, state) ==
    /\ ~window.closed
    /\ LET norm_x == window.mouse_pos[1]
           norm_y == window.mouse_pos[2]
           border == border_at(window.layout, norm_x, norm_y, Rect_full, BORDER_THRESHOLD)
           pane_id == pane_at(window.layout, norm_x, norm_y, Rect_full)
       IN IF button # "Left" THEN WindowDone([window EXCEPT !.last = "other"])
          ELSE IF state = "Pressed"
          THEN IF border.some
               THEN WindowDone([window EXCEPT
                        !.dragging_border = border,
                        !.pressed = [alive |-> TRUE, path |-> border.path],
                        !.last = "other"])
               ELSE WindowDone([window EXCEPT
                        !.focused_pane = IF pane_id.some THEN pane_id.id ELSE @,
                        !.last = "other"])
          ELSE WindowDone([window EXCEPT
                   !.dragging_border = BorderNone,
                   !.pressed = IF window.dragging_border.some THEN NoSplit ELSE @,
                   !.last = "other"])

InitWindow ==
    /\ \E screen \in WindowSizes : window = WindowState_new(screen)
    /\ terminal = Terminal_new(1, 1)
    /\ parser = Parser_new
    /\ overflow_checks = FALSE
    /\ nops = 0
    /\ app = <<>>
    /\ pty = <<>>
    /\ frame = <<>>
    /\ ChunkIdle /\ PtyIdle /\ HistIdle /\ GridIdle /\ LayoutIdle /\ AtlasIdle

NextWindow ==
    \/ \E ok \in BOOLEAN : Window_split_horizontal(ok)
    \/ \E ok \in BOOLEAN : Window_split_vertical(ok)
    \/ Window_close_pane
    \/ Window_focus_next_pane
    \/ Window_focus_prev_pane
    \/ \E size \in ResizeEvents : handle_resize(size)
    \/ \E x \in CursorPixels(window.screen[1]), y \in CursorPixels(window.screen[2]) :
           handle_cursor_moved(x, y)
    \/ \E button \in {"Left", "Right"}, state \in {"Pressed", "Released"} :
           handle_mouse_input(button, state)

SpecWindow == InitWindow /\ [][NextWindow]_vars

\* C37: in every reachable WindowState, whatever splits (failed ones
\* included), closes, focus moves and clicks came before, the leaves of the
\* layout are exactly the keys of the panes map, each once, focused_pane is
\* one of them, and close_pane with a single pane left asks for the window to
\* be closed and leaves the layout as it is, with its one leaf.
LeavesArePanes ==
    /\ [](LET ids == all_pane_ids(window.layout)
          IN /\ Range(ids) = DOMAIN window.panes
             /\ NoDuplicates(ids)
             /\ window.focused_pane \in DOMAIN window.panes)
    /\ [][window'.last = "close_pane" =>
            IF Cardinality(DOMAIN window.panes) <= 1
            THEN /\ window'.closed
                 /\ window'.layout = window.layout
                 /\ window'.panes = window.panes
            ELSE /\ ~window'.closed
                 /\ DOMAIN window'.panes = DOMAIN window.panes \ {window.focused_pane}]_vars

\* the window is asked to close by the last of MaxPaneId panes, after a click
\* moved the focus
LastPaneClosedAfterClick ==
    /\ window.closed
    /\ window.next_id = MaxPaneId + 1
    /\ window.focused_pane = MaxPaneId
    /\ window.mouse_pos # <<0, 0>>

RECURSIVE BoundsAt(_, _, _)
\* the rectangle border_at and calculate_rects give the node a path leads to
BoundsAt(tree, path, bounds) ==
    IF path = <<>> \/ tree[1] = "Single" THEN bounds
    ELSE LET ratio == tree[4]
             first == IF tree[1] = "HSplit"
                      THEN Rect(bounds.x, bounds.y, f32_mul(bounds.width, ratio),
                                bounds.height)
                      ELSE Rect(bounds.x, bounds.y, bounds.width,
                                f32_mul(bounds.height, ratio))
             second == IF tree[1] = "HSplit"
                       THEN Rect(f32_add(bounds.x, f32_mul(bounds.width, ratio)), bounds.y,
                                 f32_mul(bounds.width, f32_sub(F32_ONE, ratio)),
                                 bounds.height)
                       ELSE Rect(bounds.x, f32_add(bounds.y, f32_mul(bounds.height, ratio)),
                                 bounds.width,
                                 f32_mul(bounds.height, f32_sub(F32_ONE, ratio)))
         IN IF path[1] \in {"Left", "Top"}
            THEN BoundsAt(tree[2], Tail(path), first)
            ELSE BoundsAt(tree[3], Tail(path), second)

\* a step of handle_cursor_moved while a border is dragged
DragStep ==
    /\ window.dragging_border.some
    /\ window'.dragging_border = window.dragging_border
    /\ DOMAIN window'.panes = DOMAIN window.panes
    /\ window'.screen = window.screen
    /\ window'.closed = window.closed
    /\ window'.focused_pane = window.focused_pane
    /\ (window'.mouse_pos # window.mouse_pos \/ window'.layout # window.layout)

\* where the border of the split at a path lies on its axis
BorderPosition(tree, path) ==
    LET node == NodeAt(tree, path)
        bounds == BoundsAt(tree, path, Rect_full)
    IN IF node[1] = "HSplit"
       THEN f32_add(bounds.x, f32_mul(bounds.width, node[4]))
       ELSE f32_add(bounds.y, f32_mul(bounds.height, node[4]))

\* C35: while a border is dragged, a cursor move whose coordinate does not
\* hit the clamp to [0.1, 0.9] leaves the border of the dragged split, at
\* bounds origin + bounds extent * ratio for the split's own bounds, exactly
\* under the cursor: its x for a vertical border, its y for a horizontal one,
\* whether the split is the root or lies inside other splits.
BorderFollowsCursor ==
    [][DragStep /\ LeadsToSplit(window.layout, window.dragging_border.path) =>
        LET border == window.dragging_border
            cursor == IF border.vertical THEN window'.mouse_pos[1]
                      ELSE window'.mouse_pos[2]
        IN InRatioRange(cursor) =>
               BorderPosition(window'.layout, border.path) = cursor]_vars

\* every pane of w has the Terminal and Pty dimensions of the cells of the
\* rectangle the layout of w gives it
PanesFit(w) ==
    LET rects == calculate_rects(w.layout, Rect_full)
    IN \A id \in DOMAIN w.panes :
         LET rect == find_rect(rects, id)
             size == calculate_terminal_size_for_viewport(rect.width, rect.height, w.screen)
         IN /\ \E i \in 1 .. Len(rects) : rects[i][1] = id
            /\ w.panes[id].terminal = size
            /\ w.panes[id].pty = size

\* C38: after every command that changes the layout or the window size (a
\* split, a close of a pane, a border drag, a window resize) every remaining
\* pane has the Terminal and PTY dimensions of the cells of the rectangle
\* the layout now gives it; the pane that takes over the area of a closed
\* sibling has the dimensions of its enlarged rectangle.
PanesResizedWithLayout ==
    [][(window'.layout # window.layout \/ window'.screen # window.screen) =>
           PanesFit(window')]_vars

\* C39: from the press on a border to the release, whatever splits and
\* closes of panes come in between, the path kept in dragging_border leads
\* to the split whose border was pressed, and a cursor move changes the
\* ratio of that split and nothing else in the layout.
DragChangesOnlyPressedSplit ==
    /\ [](window.dragging_border.some =>
            /\ window.pressed.alive
            /\ window.pressed.path = window.dragging_border.path
            /\ LeadsToSplit(window.layout, window.dragging_border.path))
    /\ [][DragStep =>
            IF window.pressed.alive /\ LeadsToSplit(window'.layout, window.pressed.path)
            THEN window'.layout =
                     WithRatioAt(window.layout, window.pressed.path,
                                 NodeAt(window'.layout, window.pressed.path)[4])
            ELSE window'.layout = window.layout]_vars

-----------------------------------------------------------------------------
(* The threads of one Pty under a fair scheduler: a thread that can take its  *)
(* next step takes it. What the child and the user do (a read that returns,   *)
(* a key press, a frame) and whether a write fails are not forced.            *)

SpecPtyFair ==
    /\ InitPty
    /\ [][NextPty]_vars
    /\ WF_vars(ReaderTrySend)
    /\ WF_vars(WriterRecv)
    /\ WF_vars(WriterWriteOk \/ WriterWriteErr)
    /\ WF_vars(WriterExit)
    /\ WF_vars(WriteReturn)
    /\ WF_vars(ReadStep)

\* the reader thread has seen EOF or a read error, or the writer thread a
\* write error
IoError == reader.pc = "done" \/ writer.pc \in {"exiting", "done"}

\* C36: once a read of the reader thread has failed or returned EOF, or a
\* write of the writer thread has failed, both threads of the pane end, and
\* from the error on nothing more is read from the master for the parser
\* and nothing more is written to the master.
IoErrorMakesPaneInert ==
    /\ IoError ~> (reader.pc = "done" /\ writer.pc = "done")
    /\ [][IoError => readLog' = readLog /\ delivered' = delivered]_vars

-----------------------------------------------------------------------------
(* Renderer::render_panes_with_explorer of renderer.rs: one frame. The        *)
(* instance lists are built, queue.write_buffer calls are queued, draws are   *)
(* recorded in the one command encoder, and queue.submit runs them: every     *)
(* write queued before the submit is in the buffer before the first recorded  *)
(* draw executes. A CellInstance is <<kind, pane, index>>.                    *)

\* MAX_INSTANCES (8000), scaled
MaxInstances == 3

\* panes per frame, cells per pane, border instances of a multi-pane frame
FramePanes == 1 .. 2
FrameCells == 1 .. 2
BorderCounts == 0 .. 2

Instances(kind, pane, n) == [k \in 1 .. n |-> <<kind, pane, k>>]

\* the buffers as created: MAX_INSTANCES zeroed instances
NewBuffer == [k \in 1 .. MaxInstances |-> <<"zero", 0, 0>>]

\* if v.len() > MAX_INSTANCES { &v[..MAX_INSTANCES] } else { &v[..] }
capped(v) == IF Len(v) > MaxInstances THEN SubSeq(v, 1, MaxInstances) ELSE v

\* queue.write_buffer(buffer, 0, data) once it takes effect
write_buffer(contents, data) ==
    data \o SubSeq(contents, Len(data) + 1, Len(contents))

RECURSIVE apply_writes(_, _, _)
\* the contents of a buffer after the queued writes to it, in queue order
apply_writes(contents, queue, buffer) ==
    IF queue = <<>> THEN contents
    ELSE apply_writes(IF Head(queue).buffer = buffer
                      THEN write_buffer(contents, Head(queue).data)
                      ELSE contents,
                      Tail(queue), buffer)

FrameDone(f) ==
    /\ frame' = f
    /\ UNCHANGED <<termVars, chunkVars, ptyVars, hist, grid, layout, atlas, app, pty, window>>

Renderer_new ==
    [pc |-> "idle",
     panes |-> 0,
     all_instances |-> <<>>, all_bg_instances |-> <<>>, border_instances |-> <<>>,
     explorer_instances |-> <<>>, explorer_bg_instances |-> <<>>,
     queue |-> <<>>, encoder |-> <<>>,
     instance_buffer |-> NewBuffer, bg_instance_buffer |-> NewBuffer,
     drawn |-> <<>>]

\* the instance lists of a frame of n panes of `cells` cells each, `text` of
\* them not blank, `borders` border cells, and the explorer shown or not
BuildInstances(n, cells, text, borders, explorer) ==
    /\ frame.pc \in {"idle", "presented"}
    /\ text <= cells
    /\ FrameDone([frame EXCEPT
           !.pc = "upload",
           !.panes = n,
           !.all_instances = Flatten([p \in 1 .. n |-> Instances("text", p, text)]),
           !.all_bg_instances = Flatten([p \in 1 .. n |-> Instances("bg", p, cells)]),
           !.border_instances = IF n > 1 THEN Instances("border", 0, borders) ELSE <<>>,
           !.explorer_instances = IF explorer THEN Instances("explorer_text", 0, 1)
                                  ELSE <<>>,
           !.explorer_bg_instances = IF explorer THEN Instances("explorer_bg", 0, 1)
                                     ELSE <<>>,
           !.queue = <<>>, !.encoder = <<>>, !.drawn = <<>>])

\* the two write_buffer calls before the encoder is created
UploadInstances ==
    /\ frame.pc = "upload"
    /\ FrameDone([frame EXCEPT
           !.pc = "main_pass",
           !.all_instances = capped(@),
           !.all_bg_instances = capped(@),
           !.queue = @ \o <<[buffer |-> "instance_buffer",
                             data |-> capped(frame.all_instances)],
                            [buffer |-> "bg_instance_buffer",
                             data |-> capped(frame.all_bg_instances)]>>])

\* "Render Pass": the background draw, then the text draw
MainPass ==
    /\ frame.pc = "main_pass"
    /\ FrameDone([frame EXCEPT
           !.pc = "border_pass",
           !.encoder = @ \o <<[pass |-> "main", buffer |-> "bg_instance_buffer",
                               count |-> Len(frame.all_bg_instances)],
                              [pass |-> "main", buffer |-> "instance_buffer",
                               count |-> Len(frame.all_instances)]>>])

\* "Border Render Pass", when there are border instances
BorderPass ==
    /\ frame.pc = "border_pass"
    /\ LET borders == capped(frame.border_instances)
       IN IF frame.border_instances = <<>>
          THEN FrameDone([frame EXCEPT !.pc = "explorer_pass"])
          ELSE FrameDone([frame EXCEPT
                   !.pc = "explorer_pass",
                   !.queue = Append(@, [buffer |-> "bg_instance_buffer", data |-> borders]),
                   !.encoder = Append(@, [pass |-> "border",
                                          buffer |-> "bg_instance_buffer",
                                          count |-> Len(borders)])])

\* "Explorer Render Pass", when the explorer is shown
ExplorerPass ==
    /\ frame.pc = "explorer_pass"
    /\ LET explorer_bg == capped(frame.explorer_bg_instances)
           explorer_text == capped(frame.explorer_instances)
       IN IF frame.explorer_bg_instances = <<>>
          THEN FrameDone([frame EXCEPT !.pc = "submit"])
          ELSE FrameDone([frame EXCEPT
                   !.pc = "submit",
                   !.queue = @ \o <<[buffer |-> "bg_instance_buffer", data |-> explorer_bg],
                                    [buffer |-> "instance_buffer", data |-> explorer_text]>>,
                   !.encoder = @ \o <<[pass |-> "explorer",
                                       buffer |-> "bg_instance_buffer",
                                       count |-> Len(explorer_bg)],
                                      [pass |-> "explorer", buffer |-> "instance_buffer",
                                       count |-> Len(explorer_text)]>>])

\* queue.submit(once(encoder.finish())) and output.present(): the queued
\* writes take effect, then the recorded draws read the buffers
Submit ==
    /\ frame.pc = "submit"
    /\ LET bg == apply_writes(frame.bg_instance_buffer, frame.queue, "bg_instance_buffer")
           text == apply_writes(frame.instance_buffer, frame.queue, "instance_buffer")
       IN FrameDone([frame EXCEPT
              !.pc = "presented",
              !.bg_instance_buffer = bg,
              !.instance_buffer = text,
              !.queue = <<>>,
              !.drawn = [i \in 1 .. Len(frame.encoder) |->
                            [pass |-> frame.encoder[i].pass,
                             buffer |-> frame.encoder[i].buffer,
                             data |-> SubSeq(IF frame.encoder[i].buffer = "bg_instance_buffer"
                                             THEN bg ELSE text,
                                             1, frame.encoder[i].count)]]])

InitFrame ==
    /\ frame = Renderer_new
    /\ terminal = Terminal_new(1, 1)
    /\ parser = Parser_new
    /\ overflow_checks = FALSE
    /\ nops = 0
    /\ app = <<>>
    /\ pty = <<>>
    /\ window = <<>>
    /\ ChunkIdle /\ PtyIdle /\ HistIdle /\ GridIdle /\ LayoutIdle /\ AtlasIdle

NextFrame ==
    \/ \E n \in FramePanes, cells \in FrameCells, text \in 0 .. 1, borders \in BorderCounts,
          explorer \in BOOLEAN : BuildInstances(n, cells, text, borders, explorer)
    \/ UploadInstances
    \/ MainPass
    \/ BorderPass
    \/ ExplorerPass
    \/ Submit

SpecFrame == InitFrame /\ [][NextFrame]_vars

\* C40: in a frame of more than one pane, the background draw of the main
\* render pass draws the background instances built for the panes (those
\* that fit the buffer): no write queued later in the frame, by the border
\* pass or by the explorer pass, is in the buffer in their place when the
\* submitted draw reads it.
BackgroundDrawReadsPaneInstances ==
    frame.pc = "presented" /\ frame.panes > 1 =>
        /\ frame.drawn[1].pass = "main"
        /\ frame.drawn[1].buffer = "bg_instance_buffer"
        /\ frame.drawn[1].data = frame.all_bg_instances

====
